---- MODULE Spec2Model ----
(***************************************************************************)
(* betterHardwareSwap: the Reddit -> Gemini -> Discord pipeline            *)
(* (internal/processor).  One behaviour is a sequence of RunPipeline       *)
(* executions of one server process against one Firestore database.        *)
(*                                                                         *)
(* Strings that the code inspects character by character (the matcher's    *)
(* corpus and terms) are sequences of one-character strings; identifiers   *)
(* that the code only compares or passes on are TLA+ strings or numbers.   *)
(***************************************************************************)
EXTENDS Integers, Sequences, FiniteSets, TLC

\* ------------------------------------------------------------------ bounds
MaxPosts == 2      \* distinct reddit post ids the feed can show
MaxRuns == 2       \* RunPipeline executions started in one behaviour
MaxOverlap == 2    \* RunPipeline executions that may be in flight at once
MaxFetched == 2    \* posts fetched in one behaviour, all batches together
TTL == 2           \* c.ttl (5 minutes) in ticks of the clock
BudgetBatch == 11  \* posts of the listing that is larger than the worker limit
MaxCorpusLen == 3  \* characters of the corpus of a call with one term
MaxTermLen == 2    \* characters of the term of such a call
MaxTerms == 2      \* terms of each clause of a rule
MaxAlerts == 3     \* rules of the list handed to one findMatches call
MaxClock == 4      \* seconds of the clock of the rate limiter
MaxCallers == 3    \* concurrent Allow calls
MaxFlows == 2      \* concurrent wizard flows of one user

\* ------------------------------------------------------- program constants
WorkerLimit == 10  \* g.SetLimit(10)
TrimKeep == 500    \* TrimOldPosts keeps the 500 most recent posts
maxRetries == 3    \* callWithRetry: maxRetries := 3
\* RateLimiter.Allow: 2*time.Second, in seconds
RateWindow == 2

\* ------------------------------------------------------------- characters
Digits == {"0", "1", "2", "3", "4", "5", "6", "7", "8", "9"}
LowerLetters == <<"a", "b", "c", "d", "e", "f", "g", "h", "i", "j", "k", "l", "m",
                  "n", "o", "p", "q", "r", "s", "t", "u", "v", "w", "x", "y", "z">>
UpperLetters == <<"A", "B", "C", "D", "E", "F", "G", "H", "I", "J", "K", "L", "M",
                  "N", "O", "P", "Q", "R", "S", "T", "U", "V", "W", "X", "Y", "Z">>
Range(f) == {f[i] : i \in DOMAIN f}

\* [a-zA-Z0-9]
IsAlnum(c) == c \in Digits \cup Range(LowerLetters) \cup Range(UpperLetters)
\* \w
IsWordChar(c) == IsAlnum(c) \/ c = "_"
\* unicode.IsSpace on the characters of the model
IsSpace(c) == c \in {" ", "\t", "\n"}

\* strings.ToLower, one character
LowerChar(c) ==
    IF c \in Range(UpperLetters)
    THEN LowerLetters[CHOOSE i \in DOMAIN UpperLetters : UpperLetters[i] = c]
    ELSE c
\* strings.ToLower
ToLower(s) == [i \in 1..Len(s) |-> LowerChar(s[i])]

\* strings.TrimSpace
RECURSIVE TrimLeft(_)
TrimLeft(s) == IF s # <<>> /\ IsSpace(Head(s)) THEN TrimLeft(Tail(s)) ELSE s
RECURSIVE TrimRight(_)
TrimRight(s) ==
    IF s # <<>> /\ IsSpace(s[Len(s)]) THEN TrimRight(SubSeq(s, 1, Len(s) - 1)) ELSE s
TrimSpace(s) == TrimRight(TrimLeft(s))

\* strings.EqualFold on TLA+ strings: the flairs the feed can carry, folded
FoldFlair(f) ==
    CASE f \in {"Sold", "SOLD", "sold"} -> "sold"
      [] f \in {"Closed", "CLOSED", "closed"} -> "closed"
      [] OTHER -> f
EqualFold(a, b) == FoldFlair(a) = FoldFlair(b)

\* ---------------------------------------------------------------- Matcher
\* containsWord's key into m.patterns: strings.ToLower(strings.TrimSpace(word))
NormWord(word) == ToLower(TrimSpace(word))

\* no boundary test: the word found anywhere, as a substring
WordBoundary_none(s, p) == TRUE

\* \b at the gap before index p of s (p in 1..Len(s)+1)
WordBoundary(s, p) ==
    LET before == p > 1 /\ IsWordChar(s[p - 1])
        after == p <= Len(s) /\ IsWordChar(s[p])
    IN before # after

\* \b in front of every word, whatever its first character
CustomStart_wordBoundary(s, p) == WordBoundary(s, p)

\* (?:^|[^\w]) ending right before index p
CustomStart(s, p) == p = 1 \/ ~IsWordChar(s[p - 1])
\* (?:$|[^\w]) starting at index p
CustomEnd(s, p) == p = Len(s) + 1 \/ ~IsWordChar(s[p])

\* the compiled pattern of a normalized word, applied with MatchString:
\* (?i) + [\b | (?:^|[^\w])] + QuoteMeta(word) + [\b | (?:$|[^\w])]
PatternMatches(w, corpus) ==
    LET isWordStart == IsAlnum(w[1])
        isWordEnd == IsAlnum(w[Len(w)])
    IN \E i \in 1..(Len(corpus) - Len(w) + 1) :
          /\ \A j \in 1..Len(w) : LowerChar(corpus[i + j - 1]) = LowerChar(w[j])
          /\ IF isWordStart THEN WordBoundary(corpus, i) ELSE CustomStart(corpus, i)
          /\ IF isWordEnd THEN WordBoundary(corpus, i + Len(w))
                          ELSE CustomEnd(corpus, i + Len(w))

\* a word that is empty once trimmed counts as present
containsWord_emptyPresent(corpus, word) ==
    LET w == NormWord(word)
    IN IF w = <<>> THEN TRUE ELSE PatternMatches(w, corpus)

\* Matcher.containsWord, its result (its accesses to m.patterns are steps of
\* the calling worker, below)
containsWord(corpus, word) ==
    LET w == NormWord(word)
    IN IF w = <<>> THEN FALSE ELSE PatternMatches(w, corpus)

\* a rule without alternatives matches nothing
Matches_anyOfRequired(corpus, mustHave, anyOf, mustNot) ==
    LET c == ToLower(corpus)
    IN IF \E i \in DOMAIN mustNot : containsWord(c, mustNot[i]) THEN FALSE
       ELSE IF \E i \in DOMAIN mustHave : ~containsWord(c, mustHave[i]) THEN FALSE
       ELSE \E i \in DOMAIN anyOf : containsWord(c, anyOf[i])

\* Matcher.Matches
Matches(corpus, mustHave, anyOf, mustNot) ==
    LET c == ToLower(corpus)
    IN IF \E i \in DOMAIN mustNot : containsWord(c, mustNot[i]) THEN FALSE
       ELSE IF \E i \in DOMAIN mustHave : ~containsWord(c, mustHave[i]) THEN FALSE
       ELSE IF Len(anyOf) > 0 /\ ~\E i \in DOMAIN anyOf : containsWord(c, anyOf[i])
            THEN FALSE
       ELSE TRUE

\* ------------------------------------------------------------ the world
Posts == 1..MaxPosts            \* reddit post ids
Slots == 1..MaxOverlap          \* concurrently executing RunPipeline calls
Scopes == {"g1", "g2"}          \* discord servers (AlertRule.ServerID)
\* Post.LinkFlairText and Post.RemovedByByCategory as the feed shows them: open,
\* removed, sold, closed and removed
Statuses ==
    { [LinkFlairText |-> "Selling", RemovedByByCategory |-> ""],
      [LinkFlairText |-> "Selling", RemovedByByCategory |-> "deleted"],
      [LinkFlairText |-> "SOLD", RemovedByByCategory |-> ""],
      [LinkFlairText |-> "Closed", RemovedByByCategory |-> "moderator"] }

\* reddit.Post, the fields the pipeline reads
PostValues ==
    { [ID |-> p, LinkFlairText |-> st.LinkFlairText,
       RemovedByByCategory |-> st.RemovedByByCategory] : p \in Posts, st \in Statuses }

\* the batches FetchNewestPosts can return: each id at most once, in id order
RECURSIVE BatchesFrom(_)
BatchesFrom(n) ==
    IF n > MaxPosts THEN {<<>>}
    ELSE LET rest == BatchesFrom(n + 1)
         IN rest \cup {<<p>> \o b : p \in {q \in PostValues : q.ID = n}, b \in rest}
Batches == BatchesFrom(1)

\* store.AlertRule, the fields the pipeline reads; what GetAllAlerts returns
AllAlerts ==
    << [ServerID |-> "g1", UserID |-> "u1",
        MustHave |-> << <<"3", "0", "8", "0">> >>, AnyOf |-> <<>>, MustNot |-> <<>>],
       [ServerID |-> "g2", UserID |-> "u2",
        MustHave |-> <<>>, AnyOf |-> << <<"G", "P", "U", " ">> >>, MustNot |-> <<>>],
       [ServerID |-> "g1", UserID |-> "u3",
        MustHave |-> << <<"3", "0", "8", "0">> >>, AnyOf |-> <<>>, MustNot |-> <<>>] >>

\* ai.CleanedPost, the fields the pipeline reads; what CleanRedditPost can return
CleanedPosts ==
    { [Title |-> <<"G", "p", "u", " ", "3", "0", "8", "0">>,
       Description |-> <<>>, Location |-> <<>>],
      [Title |-> <<"3", "0", "8", "0", "t", "i">>,
       Description |-> <<>>, Location |-> <<>>] }
NoCleaned == [Title |-> <<>>, Description |-> <<>>, Location |-> <<>>]

\* store.ServerConfig of a server, as stored in the servers collection
ServerConfigOf(s) == [FeedChannelID |-> <<"feed", s>>, PingChannelID |-> <<"ping", s>>]
NoConfig == [FeedChannelID |-> <<>>, PingChannelID |-> <<>>]

\* a discord message id; NoMsg marks an absent key of a map[string]string
NoMsg == <<>>
NoMsgs == [s \in Scopes |-> NoMsg]
Keys(m) == {s \in Scopes : m[s] # NoMsg}

\* store.PostRecord (present = FALSE: no document / nil)
NoRecord == [present |-> FALSE, CleanedTitle |-> <<>>, ServerMsgs |-> NoMsgs]

\* cacheItem (present = FALSE: no entry).  expiresIn is item.expiresAt - time.Now(),
\* 0 once the clock has reached expiresAt; age is the time since the entry was
\* stored, counted up to TTL
NoItem == [present |-> FALSE, config |-> NoConfig, expiresIn |-> 0, age |-> 0]
NoItems == [s \in Scopes |-> NoItem]
NoLock == [readers |-> {}, writer |-> 0]

ZeroCalls == [s \in Scopes |-> 0]
\* no function outside RunPipeline is being called
NoCall == [fn |-> "none"]
\* the SendMessage call of a ping: its channel and the user ids it mentions
NoPing == [channel |-> <<>>, users |-> <<>>]
NoPings == [s \in Scopes |-> NoPing]
NoMatches == [s \in Scopes |-> <<>>]

VARIABLES
    records,     \* Firestore posts collection: post id -> PostRecord
    posted,      \* post ids in the order of their posted_at
    patterns,    \* globalMatcher.patterns: the normalized words with a compiled regexp
    crashed,     \* the process died of Go's fatal "concurrent map" error
    overlap,     \* whether the trigger may start a run while another is executing
    call,        \* a call in progress of a function or handler outside RunPipeline:
                 \* its name, its inputs, its position and its results
    runs,        \* RunPipeline executions started so far
    fetched,     \* posts fetched so far
    run,         \* slot -> the main goroutine of a RunPipeline execution
    task,        \* slot -> batch index -> the g.Go closure of one post
    saveCount,   \* history: post id -> successful SavePostRecords calls
    reclassified,\* history: post id -> CleanRedditPost was called while its record existed
    delivered,   \* history: post id -> server -> successful SendEmbedWithComponents calls
    lookupFault, \* history: post id -> GetPostRecord failed while its record existed
    classified,  \* history: post id -> CleanRedditPost calls made for the post
    closedEdit   \* history: post id -> the run that last made an EditEmbed call for the
                 \* post, 0 if none did since the feed last showed the post open
\* run[r].nAlerts, run[r].nTrim and task[r][k].nClean, .nMatch, .nSend, .nPing, .nEdit,
\* .nSave count the calls of GetAllAlerts, TrimOldPosts, CleanRedditPost, Matches,
\* SendEmbedWithComponents, SendMessage, EditEmbed and SavePostRecords; task[r][k].sent
\* holds the servers whose SendEmbedWithComponents call returned a message id, .errs
\* holds the calls after the lookup that failed, .had whether the record was
\* persisted when the lookup ran, .look what the lookup returned

vars == <<records, posted, patterns, crashed, overlap, call, runs, fetched, run, task,
          saveCount, reclassified, delivered, lookupFault, classified, closedEdit>>

IdleRun ==
    [pc |-> "idle", id |-> 0, batch |-> <<>>, alerts |-> <<>>, next |-> 1,
     fetchErr |-> "", ret |-> "none", ctxDone |-> FALSE, items |-> NoItems,
     mu |-> NoLock, nAlerts |-> 0, nTrim |-> 0, trimErr |-> FALSE,
     cancelled |-> FALSE]

IdleTask ==
    [pc |-> "new", look |-> "", rec |-> NoRecord, cleaned |-> NoCleaned,
     acc |-> <<>>, matches |-> NoMatches, todo |-> {}, cur |-> "", cfg |-> NoConfig,
     msgs |-> NoMsgs, isNew |-> FALSE, had |-> FALSE, errs |-> {}, res |-> "none",
     nClean |-> 0, nMatch |-> 0, nSend |-> ZeroCalls, nPing |-> ZeroCalls,
     nEdit |-> ZeroCalls, nSave |-> 0, ping |-> NoPings,
     sent |-> {}]

\* --------------------------------------------- decisions of the pipeline
\* strings.EqualFold(post.LinkFlairText, "Sold") || strings.EqualFold(.., "Closed")
IsClosedFlair(post) ==
    EqualFold(post.LinkFlairText, "Sold") \/ EqualFold(post.LinkFlairText, "Closed")

\* the messages of a removed post are updated as those of a sold or closed one
UpdatesMessages_removed(post) == IsClosedFlair(post) \/ post.RemovedByByCategory # ""

\* handleExistingPostStatus: the test that guards its loop over record.ServerMsgs; the
\* test of post.RemovedByByCategory that follows the loop only writes a log line
UpdatesMessages(post) == IsClosedFlair(post)

\* a sighting is taken as new whatever the lookup returned
IsNew_always(rec, err) == TRUE

\* isNew := (record == nil || err != nil)
IsNew(rec, err) == ~rec.present \/ err

\* the guard without its test of the removal category
ShouldProcessNew_flairOnly(post) ==
    /\ ~EqualFold(post.LinkFlairText, "Sold")
    /\ ~EqualFold(post.LinkFlairText, "Closed")

\* the guard of processNewPost in the closure of RunPipeline
ShouldProcessNew(post) ==
    /\ post.RemovedByByCategory = ""
    /\ ~EqualFold(post.LinkFlairText, "Sold")
    /\ ~EqualFold(post.LinkFlairText, "Closed")

\* the closure hands the error of its last call to the errgroup
TaskReturn_propagate(err) == IF err THEN "err" ELSE "nil"

\* the value the g.Go closure returns to the errgroup, err telling whether the
\* last call it made failed: every path of it ends in `return nil`
TaskReturn(err) == "nil"

\* the test of len(serverMsgs) inverted
ShouldSave_inverted(msgs) == Keys(msgs) = {}

\* the save without the test of len(serverMsgs)
ShouldSave_always(msgs) == TRUE

\* if len(serverMsgs) > 0 { db.SavePostRecords(...) }
ShouldSave(msgs) == Keys(msgs) # {}

\* corpus := cleaned.Title + " " + cleaned.Description + " " + cleaned.Location
Corpus(cleaned) ==
    cleaned.Title \o <<" ">> \o cleaned.Description \o <<" ">> \o cleaned.Location

\* findMatches: ServerID -> the UserIDs appended, in rule order
RECURSIVE findMatches(_, _)
findMatches(alerts, corpus) ==
    IF alerts = <<>> THEN NoMatches
    ELSE LET n == Len(alerts)
             alert == alerts[n]
             m == findMatches(SubSeq(alerts, 1, n - 1), corpus)
         IN IF Matches(corpus, alert.MustHave, alert.AnyOf, alert.MustNot)
            THEN [m EXCEPT ![alert.ServerID] = Append(@, alert.UserID)]
            ELSE m

\* the words a loop of Matches hands to containsWord: up to and including the
\* first one whose result is stopOn
RECURSIVE ScanUntil(_, _, _)
ScanUntil(c, words, stopOn) ==
    IF words = <<>> THEN <<>>
    ELSE IF containsWord(c, Head(words)) = stopOn THEN <<Head(words)>>
    ELSE <<Head(words)>> \o ScanUntil(c, Tail(words), stopOn)

\* the containsWord calls of one Matches call, in order
MatchesLookups(corpus, mustHave, anyOf, mustNot) ==
    LET c == ToLower(corpus)
        stops(words, stopOn) == \E i \in DOMAIN words : containsWord(c, words[i]) = stopOn
        a == ScanUntil(c, mustNot, TRUE)
        b == ScanUntil(c, mustHave, FALSE)
    IN IF stops(mustNot, TRUE) THEN a
       ELSE IF stops(mustHave, FALSE) THEN a \o b
       ELSE a \o b \o ScanUntil(c, anyOf, TRUE)

\* the keys with which one findMatches call reads m.patterns, in order (a word that
\* is empty after trimming returns before the map is touched)
RECURSIVE MatcherAccesses(_, _)
MatcherAccesses(alerts, corpus) ==
    IF alerts = <<>> THEN <<>>
    ELSE LET alert == Head(alerts)
             looked == MatchesLookups(corpus, alert.MustHave, alert.AnyOf, alert.MustNot)
             keys == [i \in DOMAIN looked |-> NormWord(looked[i])]
         IN SelectSeq(keys, LAMBDA w : w # <<>>) \o MatcherAccesses(Tail(alerts), corpus)

\* --------------------------------------------------------------- the store
\* Store.SavePostRecords: one document per reddit id, holding the cleaned title and
\* the server -> message map; an existing document keeps its posted_at and has its
\* map extended
SavedRecord(old, cleanedTitle, serverMsgs) ==
    [present |-> TRUE, CleanedTitle |-> cleanedTitle,
     ServerMsgs |-> [s \in Scopes |->
                        IF serverMsgs[s] # NoMsg THEN serverMsgs[s] ELSE old.ServerMsgs[s]]]

\* Store.TrimOldPosts: the ids that stay, the TrimKeep most recent by posted_at
TrimmedPosted(order) ==
    IF Len(order) > TrimKeep
    THEN SubSeq(order, Len(order) - TrimKeep + 1, Len(order))
    ELSE order

\* the message id discord returns for the embed a run sends for a post to a server
MsgId(runId, postId, s) == <<runId, postId, s>>

\* ------------------------------------------------------------------ Init
Init ==
    /\ records = [p \in Posts |-> NoRecord]
    /\ posted = <<>>
    /\ patterns = {}
    /\ crashed = FALSE
    /\ overlap = FALSE
    /\ call = NoCall
    /\ runs = 0
    /\ fetched = 0
    /\ run = [r \in Slots |-> IdleRun]
    /\ task = [r \in Slots |-> [k \in Posts |-> IdleTask]]
    /\ saveCount = [p \in Posts |-> 0]
    /\ reclassified = [p \in Posts |-> FALSE]
    /\ delivered = [p \in Posts |-> ZeroCalls]
    /\ lookupFault = [p \in Posts |-> FALSE]
    /\ classified = [p \in Posts |-> 0]
    /\ closedEdit = [p \in Posts |-> 0]

store == <<records, posted>>
hist == <<saveCount, reclassified, delivered, lookupFault, classified, closedEdit>>

Free(r) == run[r].pc \in {"idle", "ret"}

\* the cache entries d ticks of the clock later
Elapsed(items, d) ==
    [s \in Scopes |->
        IF items[s].present
        THEN [items[s] EXCEPT !.expiresIn = IF @ > d THEN @ - d ELSE 0,
                              !.age = IF @ + d < TTL THEN @ + d ELSE TTL]
        ELSE items[s]]

\* the clock is not read
Before_always(item) == TRUE

\* time.Now().Before(item.expiresAt)
Before(item) == item.expiresIn > 0

\* cacheItem{config: cfg, expiresAt: time.Now().Add(c.ttl)}
NewItem(cfg) == [present |-> TRUE, config |-> cfg, expiresIn |-> TTL, age |-> 0]

\* ctx.Err() != nil: the context RunPipeline was called with has been cancelled; the
\* store and the classifier refuse a call made with it
CtxErr(r) == run[r].cancelled

\* goroutines of the errgroup that hold a slot of its semaphore
Active(r) == Cardinality({k \in DOMAIN task[r] : task[r][k].pc \notin {"new", "done"}})

\* ------------------------------------------- RunPipeline, the main goroutine
\* the trigger starts RunPipeline in a free slot
CanStart(r) ==
    /\ ~crashed
    /\ runs < MaxRuns
    /\ Free(r)
    /\ \A q \in Slots : q < r => ~Free(q)
    /\ overlap \/ \A q \in Slots : Free(q)

\* the error of FetchNewestPosts only logged: the run goes on with no posts
FetchFail_continue(r) ==
    /\ CanStart(r)
    /\ runs' = runs + 1
    /\ run' = [run EXCEPT ![r] = [IdleRun EXCEPT !.pc = "alerts", !.id = runs + 1,
                                                !.fetchErr = "posts"]]
    /\ task' = [task EXCEPT ![r] = [k \in Posts |-> IdleTask]]
    /\ UNCHANGED <<store, patterns, crashed, overlap, call, fetched, hist>>

\* posts, err := scraper.FetchNewestPosts(ctx); err != nil: return the error
FetchFail(r) ==
    /\ CanStart(r)
    /\ runs' = runs + 1
    /\ run' = [run EXCEPT ![r] = [IdleRun EXCEPT !.pc = "ret", !.id = runs + 1,
                                                !.fetchErr = "posts", !.ret = "err"]]
    /\ task' = [task EXCEPT ![r] = [k \in Posts |-> IdleTask]]
    /\ UNCHANGED <<store, patterns, crashed, overlap, call, fetched, hist>>

\* posts, err := scraper.FetchNewestPosts(ctx); err == nil
FetchOK(r) ==
    /\ CanStart(r)
    /\ runs' = runs + 1
    /\ \E b \in Batches :
          /\ fetched + Len(b) <= MaxFetched
          /\ fetched' = fetched + Len(b)
          /\ run' = [run EXCEPT ![r] = [IdleRun EXCEPT !.pc = "alerts", !.id = runs + 1,
                                                      !.batch = b]]
    /\ task' = [task EXCEPT ![r] = [k \in Posts |-> IdleTask]]
    /\ UNCHANGED <<store, patterns, crashed, overlap, call, hist>>

\* alerts, err := db.GetAllAlerts(ctx); err != nil: return the error
AlertsFail(r) ==
    /\ ~crashed
    /\ run[r].pc = "alerts"
    /\ run' = [run EXCEPT ![r].pc = "ret", ![r].fetchErr = "alerts", ![r].ret = "err",
                          ![r].nAlerts = @ + 1]
    /\ UNCHANGED <<store, patterns, crashed, overlap, call, runs, fetched, task, hist>>

\* alerts, err := db.GetAllAlerts(ctx); err == nil; cache := NewConfigCache(..);
\* g, ctx := errgroup.WithContext(ctx); g.SetLimit(10)
AlertsOK(r) ==
    /\ ~crashed
    /\ run[r].pc = "alerts"
    /\ ~CtxErr(r)
    /\ run' = [run EXCEPT ![r].pc = IF run[r].batch = <<>> THEN "wait" ELSE "loop",
                          ![r].alerts = AllAlerts,
                          ![r].nAlerts = @ + 1,
                          ![r].items = NoItems,
                          ![r].mu = NoLock,
                          ![r].next = 1]
    /\ UNCHANGED <<store, patterns, crashed, overlap, call, runs, fetched, task, hist>>

\* g.Go with no limit set on the group
Spawn_unlimited(r) ==
    /\ ~crashed
    /\ run[r].pc = "loop"
    /\ task' = [task EXCEPT ![r][run[r].next].pc = "lookup"]
    /\ run' = [run EXCEPT ![r].next = @ + 1,
                          ![r].pc = IF run[r].next = Len(run[r].batch) THEN "wait" ELSE "loop"]
    /\ UNCHANGED <<store, patterns, crashed, overlap, call, runs, fetched, hist>>

\* for _, p := range posts { g.Go(...) }: g.Go blocks while WorkerLimit goroutines run
Spawn(r) ==
    /\ ~crashed
    /\ run[r].pc = "loop"
    /\ Active(r) < WorkerLimit
    /\ task' = [task EXCEPT ![r][run[r].next].pc = "lookup"]
    /\ run' = [run EXCEPT ![r].next = @ + 1,
                          ![r].pc = IF run[r].next = Len(run[r].batch) THEN "wait" ELSE "loop"]
    /\ UNCHANGED <<store, patterns, crashed, overlap, call, runs, fetched, hist>>

\* the join left out: RunPipeline goes on once the loop over the listing has ended
Wait_early(r) ==
    /\ ~crashed
    /\ run[r].pc = "wait"
    /\ run' = [run EXCEPT ![r].ctxDone = TRUE, ![r].pc = "trim"]
    /\ UNCHANGED <<store, patterns, crashed, overlap, call, runs, fetched, task, hist>>

\* g.Wait(): returns when every goroutine has returned, cancels the group's
\* context, and yields the first non-nil error a goroutine returned
Wait(r) ==
    /\ ~crashed
    /\ run[r].pc = "wait"
    /\ \A k \in 1..Len(run[r].batch) : task[r][k].pc = "done"
    /\ LET err == \E k \in 1..Len(run[r].batch) : task[r][k].res = "err"
       IN run' = [run EXCEPT ![r].ctxDone = TRUE,
                             ![r].pc = IF err THEN "ret" ELSE "trim",
                             ![r].ret = IF err THEN "err" ELSE "none",
                             ![r].items = IF err THEN NoItems ELSE @]
    /\ UNCHANGED <<store, patterns, crashed, overlap, call, runs, fetched, task, hist>>

\* the error of TrimOldPosts returned to the caller of RunPipeline
Trim_fatal(r) ==
    /\ ~crashed
    /\ run[r].pc = "trim"
    /\ \E fails \in BOOLEAN :
          /\ IF fails \/ run[r].ctxDone
             THEN UNCHANGED store
             ELSE /\ posted' = TrimmedPosted(posted)
                  /\ records' = [p \in DOMAIN records |->
                                   IF p \in Range(TrimmedPosted(posted)) THEN records[p]
                                   ELSE NoRecord]
          /\ run' = [run EXCEPT ![r].pc = "ret",
                                ![r].ret = IF fails \/ run[r].ctxDone THEN "err" ELSE "nil",
                                ![r].nTrim = @ + 1,
                                ![r].trimErr = fails \/ run[r].ctxDone,
                                ![r].items = NoItems]
    /\ UNCHANGED <<patterns, crashed, overlap, call, runs, fetched, task, hist>>

\* db.TrimOldPosts(ctx), its error only logged; return nil.  Firestore refuses a
\* call whose context is cancelled.
Trim(r) ==
    /\ ~crashed
    /\ run[r].pc = "trim"
    /\ \E fails \in BOOLEAN :
          /\ IF fails \/ run[r].ctxDone
             THEN UNCHANGED store
             ELSE /\ posted' = TrimmedPosted(posted)
                  /\ records' = [p \in DOMAIN records |->
                                   IF p \in Range(TrimmedPosted(posted)) THEN records[p]
                                   ELSE NoRecord]
          /\ run' = [run EXCEPT ![r].pc = "ret", ![r].ret = "nil", ![r].nTrim = @ + 1,
                                ![r].trimErr = fails \/ run[r].ctxDone,
                                ![r].items = NoItems]
    /\ UNCHANGED <<patterns, crashed, overlap, call, runs, fetched, task, hist>>

\* ------------------------------------------------ the g.Go closure of a post
Running(r, k) == ~crashed /\ k <= Len(run[r].batch)
PostOf(r, k) == run[r].batch[k]

\* the closure returns, err telling whether the last call it made failed
Finish(t, err) ==
    [t EXCEPT !.pc = "done", !.res = TaskReturn(err), !.cur = "", !.cfg = NoConfig]

\* the record saved as soon as one delivery has succeeded, the other servers dropped
Advance_saveEarly(t, err) ==
    IF t.isNew /\ ShouldSave(t.msgs)
    THEN [t EXCEPT !.pc = "save", !.cur = "", !.cfg = NoConfig]
    ELSE IF t.todo # {} THEN [t EXCEPT !.pc = "range", !.cur = "", !.cfg = NoConfig]
         ELSE Finish(t, err)

\* the end of one iteration of `for serverID, .. := range ..` (also `continue`): the
\* next iteration, or what follows the loop: the SavePostRecords of processNewPost,
\* or the return
Advance(t, err) ==
    IF t.todo # {} THEN [t EXCEPT !.pc = "range", !.cur = "", !.cfg = NoConfig]
    ELSE IF t.isNew /\ ShouldSave(t.msgs)
         THEN [t EXCEPT !.pc = "save", !.cur = "", !.cfg = NoConfig]
         ELSE Finish(t, err)

\* the post evaluated against no rule at all
Dispatch_noRules(t, alerts) ==
    Advance([t EXCEPT !.matches = NoMatches, !.todo = {}, !.acc = <<>>], FALSE)

\* findMatches has returned: dispatchToServers ranges over the matches
Dispatch(t, alerts) ==
    LET m == findMatches(alerts, Corpus(t.cleaned))
    IN Advance([t EXCEPT !.matches = m, !.todo = {s \in Scopes : m[s] # <<>>},
                         !.acc = <<>>], FALSE)

\* containsWord has used the pattern of the word at the head of acc
AfterAccess(t, alerts) ==
    IF Len(t.acc) = 1 THEN Dispatch(t, alerts)
    ELSE [t EXCEPT !.acc = Tail(@), !.pc = "mread"]

\* the ping mentions the matched users of every server
PingUsers_all(matches, s) == matches["g1"] \o matches["g2"]

\* for serverID, userIDs := range matches: the user ids of the ping for the server
PingUsers(matches, s) == matches[s]

\* the body of the loop over servers once the config is known
Body(t) == IF t.isNew THEN "deliver" ELSE "edit"

\* record, err := db.GetPostRecord(ctx, post.ID) and the branch on isNew;
\* handleExistingPostStatus up to its loop
Lookup(r, k) ==
    /\ Running(r, k)
    /\ task[r][k].pc = "lookup"
    /\ \E err \in {e \in BOOLEAN : CtxErr(r) => e} :
          LET post == PostOf(r, k)
              rec == IF err THEN NoRecord ELSE records[post.ID]
              t0 == [task[r][k] EXCEPT
                        !.look = IF rec.present THEN "record" ELSE "none",
                        !.had = records[post.ID].present,
                        !.rec = rec,
                        !.isNew = IsNew(rec, err)]
          IN /\ task' = [task EXCEPT ![r][k] =
                   IF ~t0.isNew
                   THEN IF UpdatesMessages(post)
                        THEN Advance([t0 EXCEPT !.todo = Keys(rec.ServerMsgs)], err)
                        ELSE Finish(t0, err)
                   ELSE IF ShouldProcessNew(post) THEN [t0 EXCEPT !.pc = "clean"]
                   ELSE Finish(t0, err)]
             /\ lookupFault' = [lookupFault EXCEPT
                                  ![post.ID] = @ \/ (err /\ records[post.ID].present)]
             /\ closedEdit' = [closedEdit EXCEPT
                                 ![post.ID] = IF IsClosedFlair(post) THEN @ ELSE 0]
    /\ UNCHANGED <<store, patterns, crashed, overlap, call, runs, fetched, run,
                   saveCount, reclassified, delivered, classified>>

\* cleaned, err := aiSvc.CleanRedditPost(ctx, post.Title, post.SelfText); err != nil
CleanFail(r, k) ==
    /\ Running(r, k)
    /\ task[r][k].pc = "clean"
    /\ task' = [task EXCEPT ![r][k] =
                  Finish([@ EXCEPT !.nClean = @ + 1, !.errs = @ \cup {"clean"}], TRUE)]
    /\ reclassified' = [reclassified EXCEPT
                          ![PostOf(r, k).ID] = @ \/ records[PostOf(r, k).ID].present]
    /\ UNCHANGED <<store, patterns, crashed, overlap, call, runs, fetched, run,
                   saveCount, delivered, lookupFault, closedEdit>>
    /\ classified' = [classified EXCEPT ![PostOf(r, k).ID] = @ + 1]

\* cleaned, err := aiSvc.CleanRedditPost(..); err == nil; findMatches begins
CleanOK(r, k) ==
    /\ Running(r, k)
    /\ task[r][k].pc = "clean"
    /\ ~CtxErr(r)
    /\ \E c \in CleanedPosts :
          LET acc == MatcherAccesses(run[r].alerts, Corpus(c))
              t1 == [task[r][k] EXCEPT !.cleaned = c, !.nClean = @ + 1,
                                       !.nMatch = Len(run[r].alerts), !.acc = acc]
          IN task' = [task EXCEPT ![r][k] =
                        IF acc = <<>> THEN Dispatch(t1, run[r].alerts)
                        ELSE [t1 EXCEPT !.pc = "mread"]]
    /\ reclassified' = [reclassified EXCEPT
                          ![PostOf(r, k).ID] = @ \/ records[PostOf(r, k).ID].present]
    /\ UNCHANGED <<store, patterns, crashed, overlap, call, runs, fetched, run,
                   saveCount, delivered, lookupFault, closedEdit>>
    /\ classified' = [classified EXCEPT ![PostOf(r, k).ID] = @ + 1]

\* containsWord: re, ok := m.patterns[word]
MatcherRead(r, k) ==
    /\ Running(r, k)
    /\ task[r][k].pc = "mread"
    /\ task' = [task EXCEPT ![r][k] =
                  IF Head(@.acc) \in patterns THEN AfterAccess(@, run[r].alerts)
                  ELSE [@ EXCEPT !.pc = "mwrite"]]
    /\ UNCHANGED <<store, patterns, crashed, overlap, call, runs, fetched, run, hist>>

\* containsWord: m.patterns[word] = re
MatcherWrite(r, k) ==
    /\ Running(r, k)
    /\ task[r][k].pc = "mwrite"
    /\ patterns' = patterns \cup {Head(task[r][k].acc)}
    /\ task' = [task EXCEPT ![r][k] = AfterAccess(@, run[r].alerts)]
    /\ UNCHANGED <<store, crashed, overlap, call, runs, fetched, run, hist>>

\* two goroutines at m.patterns, one of them at the assignment
MatcherRace ==
    \E r1 \in Slots, k1 \in Posts, r2 \in Slots, k2 \in Posts :
        /\ <<r1, k1>> # <<r2, k2>>
        /\ task[r1][k1].pc = "mwrite"
        /\ task[r2][k2].pc \in {"mread", "mwrite"}

\* the Go runtime detects the unsynchronized map access and kills the process
MatcherFault ==
    /\ ~crashed
    /\ MatcherRace
    /\ crashed' = TRUE
    /\ UNCHANGED <<store, patterns, overlap, call, runs, fetched, run, task, hist>>

\* for serverID, .. := range ..: the next key, in any order;
\* ConfigCache.GetServerConfig: c.mu.RLock()
RangeNext(r, k) ==
    /\ Running(r, k)
    /\ task[r][k].pc = "range"
    /\ run[r].mu.writer = 0
    /\ \E s \in task[r][k].todo :
          task' = [task EXCEPT ![r][k].cur = s, ![r][k].todo = @ \ {s},
                               ![r][k].pc = "cread"]
    /\ run' = [run EXCEPT ![r].mu.readers = @ \cup {k}]
    /\ UNCHANGED <<store, patterns, crashed, overlap, call, runs, fetched, hist>>

\* item, ok := c.items[serverID]; c.mu.RUnlock();
\* if ok && time.Now().Before(item.expiresAt) { return item.config, nil }
\* d ticks have passed since the clock was last read
CacheRead(r, k) ==
    /\ Running(r, k)
    /\ task[r][k].pc = "cread"
    /\ \E d \in 0..TTL :
          LET items == Elapsed(run[r].items, d)
              item == items[task[r][k].cur]
          IN /\ task' = [task EXCEPT ![r][k] =
                   IF item.present /\ Before(item)
                   THEN [@ EXCEPT !.cfg = item.config, !.pc = Body(task[r][k])]
                   ELSE [@ EXCEPT !.pc = "cfetch"]]
             /\ run' = [run EXCEPT ![r].mu.readers = @ \ {k},
                                   ![r].items = items]
    /\ UNCHANGED <<store, patterns, crashed, overlap, call, runs, fetched, hist>>

\* the failure of the store kept as an entry of the cache
CacheFetchFail_cached(r, k) ==
    /\ Running(r, k)
    /\ task[r][k].pc = "cfetch"
    /\ task' = [task EXCEPT ![r][k] = Advance([@ EXCEPT !.errs = @ \cup {"config"}], TRUE)]
    /\ run' = [run EXCEPT ![r].items[task[r][k].cur] = NewItem(NoConfig)]
    /\ UNCHANGED <<store, patterns, crashed, overlap, call, runs, fetched, hist>>

\* cfg, err := c.storer.GetServerConfig(ctx, serverID); err != nil: return nil, err;
\* the caller logs and continues with the next server
CacheFetchFail(r, k) ==
    /\ Running(r, k)
    /\ task[r][k].pc = "cfetch"
    /\ task' = [task EXCEPT ![r][k] = Advance([@ EXCEPT !.errs = @ \cup {"config"}], TRUE)]
    /\ UNCHANGED <<store, patterns, crashed, overlap, call, runs, fetched, run, hist>>

\* cfg, err := c.storer.GetServerConfig(ctx, serverID); err == nil
CacheFetchOK(r, k) ==
    /\ Running(r, k)
    /\ task[r][k].pc = "cfetch"
    /\ ~CtxErr(r)
    /\ task' = [task EXCEPT ![r][k].cfg = ServerConfigOf(task[r][k].cur),
                            ![r][k].pc = "clock"]
    /\ UNCHANGED <<store, patterns, crashed, overlap, call, runs, fetched, run, hist>>

\* the map written without waiting for the lock
CacheLock_unguarded(r, k) ==
    /\ Running(r, k)
    /\ task[r][k].pc = "clock"
    /\ run' = [run EXCEPT ![r].mu.writer = k]
    /\ task' = [task EXCEPT ![r][k].pc = "cwrite"]
    /\ UNCHANGED <<store, patterns, crashed, overlap, call, runs, fetched, hist>>

\* c.mu.Lock()
CacheLock(r, k) ==
    /\ Running(r, k)
    /\ task[r][k].pc = "clock"
    /\ run[r].mu = NoLock
    /\ run' = [run EXCEPT ![r].mu.writer = k]
    /\ task' = [task EXCEPT ![r][k].pc = "cwrite"]
    /\ UNCHANGED <<store, patterns, crashed, overlap, call, runs, fetched, hist>>

\* c.items[serverID] = cacheItem{cfg, time.Now().Add(c.ttl)}; c.mu.Unlock(); return cfg
\* d ticks have passed since the clock was last read
CacheWrite(r, k) ==
    /\ Running(r, k)
    /\ task[r][k].pc = "cwrite"
    /\ \E d \in 0..TTL :
          run' = [run EXCEPT ![r].items = [Elapsed(@, d) EXCEPT
                                             ![task[r][k].cur] = NewItem(task[r][k].cfg)],
                             ![r].mu.writer = 0]
    /\ task' = [task EXCEPT ![r][k].pc = Body(task[r][k])]
    /\ UNCHANGED <<store, patterns, crashed, overlap, call, runs, fetched, hist>>

\* the failed delivery entered into serverMsgs all the same
DeliverFail_recorded(r, k) ==
    /\ Running(r, k)
    /\ task[r][k].pc = "deliver"
    /\ task' = [task EXCEPT ![r][k] =
                  Advance([@ EXCEPT !.nSend[task[r][k].cur] = @ + 1,
                                    !.msgs[task[r][k].cur] =
                                        MsgId(run[r].id, PostOf(r, k).ID, task[r][k].cur),
                                    !.errs = @ \cup {"send"}], TRUE)]
    /\ UNCHANGED <<store, patterns, crashed, overlap, call, runs, fetched, run, hist>>

\* dispatchToServers: SendEmbedWithComponents fails: log, continue
DeliverFail(r, k) ==
    /\ Running(r, k)
    /\ task[r][k].pc = "deliver"
    /\ task' = [task EXCEPT ![r][k] =
                  Advance([@ EXCEPT !.nSend[task[r][k].cur] = @ + 1,
                                    !.errs = @ \cup {"send"}], TRUE)]
    /\ UNCHANGED <<store, patterns, crashed, overlap, call, runs, fetched, run, hist>>

\* dispatchToServers: SendEmbedWithComponents succeeds; two AddReaction calls and,
\* if len(userIDs) > 0, one SendMessage to the ping channel, their errors dropped
DeliverOK(r, k) ==
    /\ Running(r, k)
    /\ task[r][k].pc = "deliver"
    /\ \E reactErr \in BOOLEAN, pingErr \in BOOLEAN :
          LET s == task[r][k].cur
              msgID == MsgId(run[r].id, PostOf(r, k).ID, s)
              userIDs == PingUsers(task[r][k].matches, s)
          IN /\ task' = [task EXCEPT ![r][k] =
                   Advance([@ EXCEPT !.nSend[s] = @ + 1,
                                     !.msgs[s] = msgID,
                                     !.sent = @ \cup {s},
                                     !.nPing[s] = IF Len(userIDs) > 0 THEN @ + 1 ELSE @,
                                     !.ping[s] = IF Len(userIDs) > 0
                                                 THEN [channel |-> task[r][k].cfg.PingChannelID,
                                                       users |-> userIDs]
                                                 ELSE @], FALSE)]
             /\ delivered' = [delivered EXCEPT ![PostOf(r, k).ID][s] = @ + 1]
    /\ UNCHANGED <<store, patterns, crashed, overlap, call, runs, fetched, run,
                   saveCount, reclassified, lookupFault, classified, closedEdit>>

\* handleExistingPostStatus: client.EditEmbed(cfg.FeedChannelID, msgID, "", embed),
\* its error only logged
Edit(r, k) ==
    /\ Running(r, k)
    /\ task[r][k].pc = "edit"
    /\ \E err \in BOOLEAN :
          task' = [task EXCEPT ![r][k] =
                     Advance([@ EXCEPT !.nEdit[task[r][k].cur] = @ + 1,
                                       !.errs = IF err THEN @ \cup {"edit"} ELSE @], err)]
    /\ closedEdit' = [closedEdit EXCEPT ![PostOf(r, k).ID] = run[r].id]
    /\ UNCHANGED <<store, patterns, crashed, overlap, call, runs, fetched, run,
                   saveCount, reclassified, delivered, lookupFault, classified>>

\* db.SavePostRecords(ctx, post.ID, cleaned.Title, serverMsgs) fails: log
SaveFail(r, k) ==
    /\ Running(r, k)
    /\ task[r][k].pc = "save"
    /\ task' = [task EXCEPT ![r][k] = Finish([@ EXCEPT !.nSave = @ + 1,
                                                         !.errs = @ \cup {"save"}], TRUE)]
    /\ UNCHANGED <<store, patterns, crashed, overlap, call, runs, fetched, run, hist>>

\* db.SavePostRecords(ctx, post.ID, cleaned.Title, serverMsgs) succeeds
SaveOK(r, k) ==
    /\ Running(r, k)
    /\ task[r][k].pc = "save"
    /\ ~CtxErr(r)
    /\ LET id == PostOf(r, k).ID
       IN /\ records' = [records EXCEPT ![id] =
                           SavedRecord(@, task[r][k].cleaned.Title, task[r][k].msgs)]
          /\ posted' = IF records[id].present THEN posted ELSE Append(posted, id)
          /\ saveCount' = [saveCount EXCEPT ![id] = @ + 1]
    /\ task' = [task EXCEPT ![r][k] = Finish([@ EXCEPT !.nSave = @ + 1], FALSE)]
    /\ UNCHANGED <<patterns, crashed, overlap, call, runs, fetched, run,
                   reclassified, delivered, lookupFault, classified, closedEdit>>

\* ------------------------------------------------------------------- Next
Next ==
    \/ \E r \in Slots :
          \/ FetchFail(r) \/ FetchOK(r) \/ AlertsFail(r) \/ AlertsOK(r)
          \/ Spawn(r) \/ Wait(r) \/ Trim(r)
          \/ \E k \in Posts :
                \/ Lookup(r, k) \/ CleanFail(r, k) \/ CleanOK(r, k)
                \/ MatcherRead(r, k) \/ MatcherWrite(r, k)
                \/ RangeNext(r, k) \/ CacheRead(r, k)
                \/ CacheFetchFail(r, k) \/ CacheFetchOK(r, k)
                \/ CacheLock(r, k) \/ CacheWrite(r, k)
                \/ DeliverFail(r, k) \/ DeliverOK(r, k) \/ Edit(r, k)
                \/ SaveFail(r, k) \/ SaveOK(r, k)
    \/ MatcherFault

\* runs one after the other
Spec == Init /\ [][Next]_vars

\* a step of the main goroutine of RunPipeline after its first fetch
RunStep(r) == AlertsFail(r) \/ AlertsOK(r) \/ Spawn(r) \/ Wait(r) \/ Trim(r)

\* a step of the g.Go closure of the k-th post
TaskStep(r, k) ==
    \/ Lookup(r, k) \/ CleanFail(r, k) \/ CleanOK(r, k)
    \/ MatcherRead(r, k) \/ MatcherWrite(r, k)
    \/ RangeNext(r, k) \/ CacheRead(r, k)
    \/ CacheFetchFail(r, k) \/ CacheFetchOK(r, k)
    \/ CacheLock(r, k) \/ CacheWrite(r, k)
    \/ DeliverFail(r, k) \/ DeliverOK(r, k) \/ Edit(r, k)
    \/ SaveFail(r, k) \/ SaveOK(r, k)

\* the trigger (HandleCronScrape, an HTTP handler) may fire while a run executes
InitOverlap ==
    /\ overlap = TRUE
    /\ call = NoCall
    /\ records = [p \in Posts |-> NoRecord]
    /\ posted = <<>>
    /\ patterns = {}
    /\ crashed = FALSE
    /\ runs = 0
    /\ fetched = 0
    /\ run = [r \in Slots |-> IdleRun]
    /\ task = [r \in Slots |-> [k \in Posts |-> IdleTask]]
    /\ saveCount = [p \in Posts |-> 0]
    /\ reclassified = [p \in Posts |-> FALSE]
    /\ delivered = [p \in Posts |-> ZeroCalls]
    /\ lookupFault = [p \in Posts |-> FALSE]
    /\ classified = [p \in Posts |-> 0]
    /\ closedEdit = [p \in Posts |-> 0]

SpecOverlap == InitOverlap /\ [][Next]_vars

\* the posts collection after an earlier execution delivered post 1 to both servers
\* and saved its record; the feed still shows the post
EarlierMsgs == [s \in Scopes |-> MsgId(0, 1, s)]
InitClosed ==
    /\ records = [p \in Posts |->
                    IF p = 1
                    THEN SavedRecord(NoRecord, <<"G", "p", "u", " ", "3", "0", "8", "0">>,
                                     EarlierMsgs)
                    ELSE NoRecord]
    /\ posted = <<1>>
    /\ patterns = {}
    /\ crashed = FALSE
    /\ overlap = FALSE
    /\ call = NoCall
    /\ runs = 0
    /\ fetched = 0
    /\ run = [r \in Slots |-> IdleRun]
    /\ task = [r \in Slots |-> [k \in Posts |-> IdleTask]]
    /\ saveCount = [p \in Posts |-> IF p = 1 THEN 1 ELSE 0]
    /\ reclassified = [p \in Posts |-> FALSE]
    /\ delivered = [p \in Posts |-> IF p = 1 THEN [s \in Scopes |-> 1] ELSE ZeroCalls]
    /\ lookupFault = [p \in Posts |-> FALSE]
    /\ classified = [p \in Posts |-> IF p = 1 THEN 1 ELSE 0]
    /\ closedEdit = [p \in Posts |-> 0]

\* runs one after the other over a store that holds a delivered post
SpecClosed == InitClosed /\ [][Next]_vars

\* the caller cancels the context of a run in progress (the HTTP request of the
\* trigger is abandoned)
Cancel(r) ==
    /\ ~crashed
    /\ run[r].pc \notin {"idle", "ret"}
    /\ ~run[r].cancelled
    /\ run' = [run EXCEPT ![r].cancelled = TRUE]
    /\ UNCHANGED <<store, patterns, crashed, overlap, call, runs, fetched, task, hist>>

NextCancel == Next \/ \E r \in Slots : Cancel(r)

\* runs one after the other, each of which the caller may cancel
SpecCancel == Init /\ [][NextCancel]_vars

\* -------------------------------------------------- Matcher.Matches, one call
\* the characters of corpora and terms: letters of both cases, a digit, a
\* punctuation character, white space, the underscore
MatcherChars == {"a", "A", "5", "$", " ", "_"}
SeqsUpTo(S, n) == UNION {[1..k -> S] : k \in 0..n}
\* the terms of the rules: two words and a term that is empty once trimmed
RuleTerms == {<<"a">>, <<"5">>, <<" ">>}
\* the corpora of the calls with a whole rule: none, one, both of the words, and
\* the two words run together
RuleCorpora == {<<>>, <<"A">>, <<"5">>, <<"a", " ", "5">>, <<"a", "5">>}

\* globalMatcher.Matches(corpus, mustHave, anyOf, mustNot) has been called
MatchesCalled(corpus, mustHave, anyOf, mustNot) ==
    [fn |-> "Matches", pc |-> "called", corpus |-> corpus, mustHave |-> mustHave,
     anyOf |-> anyOf, mustNot |-> mustNot, out |-> FALSE]

\* a call with one mustHave term, or a call with a whole rule
InitMatcher ==
    /\ call \in
          {MatchesCalled(c, <<t>>, <<>>, <<>>) :
              c \in SeqsUpTo(MatcherChars, MaxCorpusLen), t \in SeqsUpTo(MatcherChars, MaxTermLen)}
          \cup
          {MatchesCalled(c, mh, ao, mn) :
              c \in RuleCorpora,
              mh \in SeqsUpTo(RuleTerms, MaxTerms), ao \in SeqsUpTo(RuleTerms, MaxTerms),
              mn \in SeqsUpTo(RuleTerms, MaxTerms)}
    /\ records = [p \in Posts |-> NoRecord]
    /\ posted = <<>>
    /\ patterns = {}
    /\ crashed = FALSE
    /\ overlap = FALSE
    /\ runs = 0
    /\ fetched = 0
    /\ run = [r \in Slots |-> IdleRun]
    /\ task = [r \in Slots |-> [k \in Posts |-> IdleTask]]
    /\ saveCount = [p \in Posts |-> 0]
    /\ reclassified = [p \in Posts |-> FALSE]
    /\ delivered = [p \in Posts |-> ZeroCalls]
    /\ lookupFault = [p \in Posts |-> FALSE]
    /\ classified = [p \in Posts |-> 0]
    /\ closedEdit = [p \in Posts |-> 0]

\* Matcher.Matches runs to its return: its result, and the patterns its
\* containsWord calls compiled and stored in m.patterns
MatchesReturn ==
    /\ call.fn = "Matches" /\ call.pc = "called"
    /\ LET looked == MatchesLookups(call.corpus, call.mustHave, call.anyOf, call.mustNot)
           keys == {NormWord(looked[i]) : i \in DOMAIN looked}
       IN patterns' = patterns \cup {w \in keys : w # <<>>}
    /\ call' = [call EXCEPT !.pc = "returned",
                            !.out = Matches(call.corpus, call.mustHave, call.anyOf,
                                            call.mustNot)]
    /\ UNCHANGED <<store, crashed, overlap, runs, fetched, run, task, hist>>

NextMatcher == MatchesReturn

SpecMatcher == InitMatcher /\ [][NextMatcher]_vars

\* ------------------------------------------- AIClient.callWithRetry, one call
\* the methods of AIClient that end in callWithRetry
RetryCallers == {"CleanRedditPost", "RunKeywordWizard", "ValidateManualQuery"}

\* callWithRetry is entered: i := 0, lastErr unset.  outs lists what the
\* GenerateContent calls made so far yielded, backoff is the wait in seconds
InitRetry ==
    /\ call \in {[fn |-> f, pc |-> "generate", i |-> 0, outs |-> <<>>, lastErr |-> "none",
                   backoff |-> 0, ctxDone |-> FALSE, ret |-> "none"] : f \in RetryCallers}
    /\ records = [p \in Posts |-> NoRecord]
    /\ posted = <<>>
    /\ patterns = {}
    /\ crashed = FALSE
    /\ overlap = FALSE
    /\ runs = 0
    /\ fetched = 0
    /\ run = [r \in Slots |-> IdleRun]
    /\ task = [r \in Slots |-> [k \in Posts |-> IdleTask]]
    /\ saveCount = [p \in Posts |-> 0]
    /\ reclassified = [p \in Posts |-> FALSE]
    /\ delivered = [p \in Posts |-> ZeroCalls]
    /\ lookupFault = [p \in Posts |-> FALSE]
    /\ classified = [p \in Posts |-> 0]
    /\ closedEdit = [p \in Posts |-> 0]

InRetry == call.fn \in RetryCallers
nocall == <<store, patterns, crashed, overlap, runs, fetched, run, task, hist>>

\* resp, err := c.model.GenerateContent(ctx, ..) and parseJSONResponse(resp, v): a
\* parseable response returns nil; an unparseable one is retried after the first
\* attempt only (`if i > 0 { break }`); an error goes to the backoff.  A cancelled
\* context makes GenerateContent fail
Generate ==
    /\ InRetry /\ call.pc = "generate"
    /\ \E out \in {"ok", "unparseable", "error"} :
          /\ call.ctxDone => out = "error"
          /\ call' =
                LET c == [call EXCEPT !.outs = Append(@, out)]
                IN CASE out = "ok" -> [c EXCEPT !.pc = "returned", !.ret = "nil"]
                     [] out = "unparseable" ->
                          IF call.i > 0
                          THEN [c EXCEPT !.lastErr = "parse", !.pc = "returned",
                                         !.ret = "failed"]
                          ELSE [c EXCEPT !.lastErr = "parse", !.pc = "backoff",
                                         !.backoff = call.i + 1]
                     [] OTHER -> [c EXCEPT !.lastErr = "gen", !.pc = "backoff",
                                           !.backoff = call.i + 1]
    /\ UNCHANGED nocall

\* the loop goes on whatever the number of attempts made
BackoffDone_forever ==
    /\ InRetry /\ call.pc = "backoff"
    /\ call' = [call EXCEPT !.i = @ + 1, !.backoff = 0, !.pc = "generate"]
    /\ UNCHANGED nocall

\* case <-time.After(backoff): continue; i++; the loop ends when i = maxRetries:
\* return fmt.Errorf("gemini call failed after %d attempts: %w", ..)
BackoffDone ==
    /\ InRetry /\ call.pc = "backoff"
    /\ call' = IF call.i + 1 < maxRetries
               THEN [call EXCEPT !.i = @ + 1, !.backoff = 0, !.pc = "generate"]
               ELSE [call EXCEPT !.i = @ + 1, !.backoff = 0, !.pc = "returned",
                                 !.ret = "failed"]
    /\ UNCHANGED nocall

\* case <-ctx.Done(): return ctx.Err()
BackoffCancelled ==
    /\ InRetry /\ call.pc = "backoff" /\ call.ctxDone
    /\ call' = [call EXCEPT !.pc = "returned", !.backoff = 0, !.ret = "ctx"]
    /\ UNCHANGED nocall

\* the caller cancels ctx while the call is in progress
CtxCancelled ==
    /\ InRetry /\ call.pc # "returned" /\ ~call.ctxDone
    /\ call' = [call EXCEPT !.ctxDone = TRUE]
    /\ UNCHANGED nocall

NextRetry == Generate \/ BackoffDone \/ BackoffCancelled \/ CtxCancelled

SpecRetry == InitRetry /\ [][NextRetry]_vars

\* ------------------------------------------ HandleInteraction, one request
\* what DISCORD_PUBLIC_KEY holds: nothing, no hex string, a key of the wrong
\* length, an Ed25519 public key
KeyStates == {"unset", "nothex", "badlen", "ok"}
\* discordgo.InteractionType of the body: Ping, ApplicationCommand,
\* MessageComponent, ModalSubmit, and a type the handler does not know
InteractionTypes == {"Ping", "ApplicationCommand", "MessageComponent", "ModalSubmit",
                     "Unknown"}

\* a request arrives.  key, sigOK, readable, parses, type, userID and allows are what
\* the request and the environment hold; status is the response (0: none yet);
\* parsed, limited, routed and store tell what has been done with the request
InitInteraction ==
    /\ call \in {[fn |-> "HandleInteraction", pc |-> "key", key |-> k, sigOK |-> sig,
                   readable |-> rd, parses |-> ps, type |-> ty, userID |-> u,
                   allows |-> al, status |-> 0, body |-> "", parsed |-> FALSE,
                   limited |-> FALSE, routed |-> "", store |-> FALSE] :
                      k \in KeyStates, sig \in BOOLEAN, rd \in BOOLEAN, ps \in BOOLEAN,
                      ty \in InteractionTypes, u \in {"", "u1"}, al \in BOOLEAN}
    /\ records = [p \in Posts |-> NoRecord]
    /\ posted = <<>>
    /\ patterns = {}
    /\ crashed = FALSE
    /\ overlap = FALSE
    /\ runs = 0
    /\ fetched = 0
    /\ run = [r \in Slots |-> IdleRun]
    /\ task = [r \in Slots |-> [k \in Posts |-> IdleTask]]
    /\ saveCount = [p \in Posts |-> 0]
    /\ reclassified = [p \in Posts |-> FALSE]
    /\ delivered = [p \in Posts |-> ZeroCalls]
    /\ lookupFault = [p \in Posts |-> FALSE]
    /\ classified = [p \in Posts |-> 0]
    /\ closedEdit = [p \in Posts |-> 0]

AtInteraction(pc) == call.fn = "HandleInteraction" /\ call.pc = pc
\* http.Error(w, .., code) or writeJSON(w, ..); return
Respond(c, code, body) == [c EXCEPT !.pc = "responded", !.status = code, !.body = body]

\* pubKey := os.Getenv("DISCORD_PUBLIC_KEY"), hex.DecodeString, the length test
CheckKey ==
    /\ AtInteraction("key")
    /\ call' = IF call.key = "ok" THEN [call EXCEPT !.pc = "verify"]
               ELSE Respond(call, 500, "Internal Server Error")
    /\ UNCHANGED nocall

\* the request goes on whatever its signature
Verify_skipped ==
    /\ AtInteraction("verify")
    /\ call' = [call EXCEPT !.pc = "read"]
    /\ UNCHANGED nocall

\* verified := discordgo.VerifyInteraction(r, edKey); if !verified: 401
Verify ==
    /\ AtInteraction("verify")
    /\ call' = IF call.sigOK THEN [call EXCEPT !.pc = "read"]
               ELSE Respond(call, 401, "Unauthorized")
    /\ UNCHANGED nocall

\* body, err := io.ReadAll(r.Body)
ReadBody ==
    /\ AtInteraction("read")
    /\ call' = IF call.readable THEN [call EXCEPT !.pc = "parse"]
               ELSE Respond(call, 400, "Bad Request")
    /\ UNCHANGED nocall

\* json.Unmarshal(body, &interaction); a Ping is answered with Pong
Parse ==
    /\ AtInteraction("parse")
    /\ call' = LET c == [call EXCEPT !.parsed = TRUE]
               IN IF ~call.parses THEN Respond(c, 400, "Bad Request")
                  ELSE IF call.type = "Ping" THEN Respond(c, 200, "Pong")
                  ELSE [c EXCEPT !.pc = "limit"]
    /\ UNCHANGED nocall

\* if userID != "" && !globalLimiter.Allow(userID): respondError
RateLimit ==
    /\ AtInteraction("limit")
    /\ call' = LET c == [call EXCEPT !.limited = call.userID # ""]
               IN IF call.userID # "" /\ ~call.allows
                  THEN Respond(c, 200, "You are doing that too fast!")
                  ELSE [c EXCEPT !.pc = "route"]
    /\ UNCHANGED nocall

\* handleInteractionEvent: the switch on the type; the handlers of commands,
\* components and modals may read and write the store
Route ==
    /\ AtInteraction("route")
    /\ \E touches \in BOOLEAN :
          call' = IF call.type = "Unknown" THEN Respond(call, 400, "Unknown Type")
                  ELSE Respond([call EXCEPT !.routed = call.type, !.store = touches],
                               200, "handled")
    /\ UNCHANGED nocall

NextInteraction == CheckKey \/ Verify \/ ReadBody \/ Parse \/ RateLimit \/ Route

SpecInteraction == InitInteraction /\ [][NextInteraction]_vars

\* ---------------------------------------------------- findMatches, one call
\* store.AlertRule values: a server, an owner, and one mustHave word
AlertValues ==
    {[ServerID |-> s, UserID |-> u, MustHave |-> <<w>>, AnyOf |-> <<>>, MustNot |-> <<>>] :
        s \in Scopes, u \in {"u1", "u2"}, w \in {<<"a">>, <<"5">>}}

\* findMatches(ctx, alerts, corpus) has been called
InitFindMatches ==
    /\ call \in {[fn |-> "findMatches", pc |-> "called", alerts |-> a, corpus |-> c,
                   out |-> NoMatches, pings |-> NoMatches] :
                      a \in SeqsUpTo(AlertValues, MaxAlerts), c \in RuleCorpora}
    /\ records = [p \in Posts |-> NoRecord]
    /\ posted = <<>>
    /\ patterns = {}
    /\ crashed = FALSE
    /\ overlap = FALSE
    /\ runs = 0
    /\ fetched = 0
    /\ run = [r \in Slots |-> IdleRun]
    /\ task = [r \in Slots |-> [k \in Posts |-> IdleTask]]
    /\ saveCount = [p \in Posts |-> 0]
    /\ reclassified = [p \in Posts |-> FALSE]
    /\ delivered = [p \in Posts |-> ZeroCalls]
    /\ lookupFault = [p \in Posts |-> FALSE]
    /\ classified = [p \in Posts |-> 0]
    /\ closedEdit = [p \in Posts |-> 0]

\* findMatches runs to its return; pings lists, per server, the user ids that
\* dispatchToServers writes into the pingContent of that server
FindMatchesReturn ==
    /\ call.fn = "findMatches" /\ call.pc = "called"
    /\ LET m == findMatches(call.alerts, call.corpus)
       IN call' = [call EXCEPT !.pc = "returned", !.out = m,
                               !.pings = [s \in Scopes |-> PingUsers(m, s)]]
    /\ patterns' = patterns \cup Range(MatcherAccesses(call.alerts, call.corpus))
    /\ UNCHANGED <<store, crashed, overlap, runs, fetched, run, task, hist>>

NextFindMatches == FindMatchesReturn

SpecFindMatches == InitFindMatches /\ [][NextFindMatches]_vars

\* a listing of BudgetBatch posts, none seen before and all of them sold: each
\* closure ends after its lookup
BudgetIds == 1..BudgetBatch
BudgetListing ==
    [k \in BudgetIds |-> [ID |-> k, LinkFlairText |-> "SOLD", RemovedByByCategory |-> ""]]

\* FetchNewestPosts has returned the listing to the one run
InitBudget ==
    /\ records = [p \in BudgetIds |-> NoRecord]
    /\ posted = <<>>
    /\ patterns = {}
    /\ crashed = FALSE
    /\ overlap = FALSE
    /\ call = NoCall
    /\ runs = 1
    /\ fetched = BudgetBatch
    /\ run = [r \in Slots |->
                IF r = 1 THEN [IdleRun EXCEPT !.pc = "alerts", !.id = 1,
                                              !.batch = BudgetListing]
                ELSE IdleRun]
    /\ task = [r \in Slots |-> [k \in BudgetIds |-> IdleTask]]
    /\ saveCount = [p \in BudgetIds |-> 0]
    /\ reclassified = [p \in BudgetIds |-> FALSE]
    /\ delivered = [p \in BudgetIds |-> ZeroCalls]
    /\ lookupFault = [p \in BudgetIds |-> FALSE]
    /\ classified = [p \in BudgetIds |-> 0]
    /\ closedEdit = [p \in BudgetIds |-> 0]

NextBudget ==
    \E r \in Slots :
        \/ AlertsFail(r) \/ AlertsOK(r) \/ Spawn(r) \/ Wait(r) \/ Trim(r)
        \/ \E k \in BudgetIds : Lookup(r, k)

\* one run over the large listing
SpecBudget == InitBudget /\ [][NextBudget]_vars

\* ----------------------------------------------------- RateLimiter.Allow
\* the users that call, the goroutines (HTTP handlers) that call Allow once each
LimiterUsers == {"u1", "u2"}
Callers == 1..MaxCallers
\* a user without an entry in rl.lastSeen
NeverSeen == 0 - 1

\* NewRateLimiter: an empty lastSeen map, the mutex free.  now is the clock in
\* seconds, g[c] the goroutine c: the user it calls Allow for, its position and what
\* Allow returned to it; allowed lists per user the times stored by the calls that
\* returned true, in the order of the calls
InitLimiter ==
    /\ call = [fn |-> "Allow", now |-> 0,
               lastSeen |-> [u \in LimiterUsers |-> NeverSeen], mu |-> 0,
               g |-> [c \in Callers |-> [pc |-> "idle", user |-> "", ret |-> "none"]],
               allowed |-> [u \in LimiterUsers |-> <<>>]]
    /\ records = [p \in Posts |-> NoRecord]
    /\ posted = <<>>
    /\ patterns = {}
    /\ crashed = FALSE
    /\ overlap = FALSE
    /\ runs = 0
    /\ fetched = 0
    /\ run = [r \in Slots |-> IdleRun]
    /\ task = [r \in Slots |-> [k \in Posts |-> IdleTask]]
    /\ saveCount = [p \in Posts |-> 0]
    /\ reclassified = [p \in Posts |-> FALSE]
    /\ delivered = [p \in Posts |-> ZeroCalls]
    /\ lookupFault = [p \in Posts |-> FALSE]
    /\ classified = [p \in Posts |-> 0]
    /\ closedEdit = [p \in Posts |-> 0]

AtAllow(c, pc) == call.fn = "Allow" /\ call.g[c].pc = pc

\* time passes
LimiterTick ==
    /\ call.fn = "Allow"
    /\ call.now < MaxClock
    /\ call' = [call EXCEPT !.now = @ + 1]
    /\ UNCHANGED nocall

\* HandleInteraction calls globalLimiter.Allow(userID)
AllowCall(c) ==
    /\ AtAllow(c, "idle")
    /\ \E u \in LimiterUsers :
          call' = [call EXCEPT !.g[c].user = u, !.g[c].pc = "lock"]
    /\ UNCHANGED nocall

\* the map used without the mutex
AllowLock_unguarded(c) ==
    /\ AtAllow(c, "lock")
    /\ call' = [call EXCEPT !.g[c].pc = "check"]
    /\ UNCHANGED nocall

\* rl.mu.Lock()
AllowLock(c) ==
    /\ AtAllow(c, "lock")
    /\ call.mu = 0
    /\ call' = [call EXCEPT !.mu = c, !.g[c].pc = "check"]
    /\ UNCHANGED nocall

\* last, ok := rl.lastSeen[userID]; if ok && time.Since(last) < 2*time.Second
\* { return false }
AllowCheck(c) ==
    /\ AtAllow(c, "check")
    /\ LET last == call.lastSeen[call.g[c].user]
       IN call' = IF last # NeverSeen /\ call.now - last < RateWindow
                  THEN [call EXCEPT !.g[c].ret = "false", !.g[c].pc = "unlock"]
                  ELSE [call EXCEPT !.g[c].pc = "store"]
    /\ UNCHANGED nocall

\* rl.lastSeen[userID] = time.Now(); return true
AllowStore(c) ==
    /\ AtAllow(c, "store")
    /\ call' = [call EXCEPT !.lastSeen[call.g[c].user] = call.now,
                            !.allowed[call.g[c].user] = Append(@, call.now),
                            !.g[c].ret = "true", !.g[c].pc = "unlock"]
    /\ UNCHANGED nocall

\* defer rl.mu.Unlock()
AllowUnlock(c) ==
    /\ AtAllow(c, "unlock")
    /\ call' = [call EXCEPT !.mu = 0, !.g[c].pc = "returned"]
    /\ UNCHANGED nocall

NextLimiter ==
    \/ LimiterTick
    \/ \E c \in Callers :
          \/ AllowCall(c) \/ AllowLock(c) \/ AllowCheck(c)
          \/ AllowStore(c) \/ AllowUnlock(c)

\* handlers that call Allow while the clock runs
SpecLimiter == InitLimiter /\ [][NextLimiter]_vars

\* ------------------------------------------ the alert wizard of one user
\* the wizard flows that one user runs in one server at the same time; the alert
\* that flow f adds gets the document id f
Flows == 1..MaxFlows
NoDoc == 0
\* the two wizards: processAIWizard and processManualWizard
FlowKinds == {"wizard", "manual"}

\* the modal of each flow was submitted and its goroutine has the rule the AI built
\* (tooBroad: wizard.TooBroad); the alerts collection is empty.  added is the id of
\* the document the flow's AddAlert created, staged the id in its buttons, warned
\* whether the too-broad warning was shown to the user
InitWizard ==
    /\ \E kd \in [Flows -> FlowKinds], tb \in [Flows -> BOOLEAN] :
          /\ \A f \in Flows : tb[f] => kd[f] = "wizard"
          /\ call = [fn |-> "wizard", now |-> 0, alerts |-> {},
                     flow |-> [f \in Flows |->
                                 [pc |-> "add", kind |-> kd[f], tooBroad |-> tb[f],
                                  added |-> NoDoc, staged |-> NoDoc, warned |-> FALSE]]]
    /\ records = [p \in Posts |-> NoRecord]
    /\ posted = <<>>
    /\ patterns = {}
    /\ crashed = FALSE
    /\ overlap = FALSE
    /\ runs = 0
    /\ fetched = 0
    /\ run = [r \in Slots |-> IdleRun]
    /\ task = [r \in Slots |-> [k \in Posts |-> IdleTask]]
    /\ saveCount = [p \in Posts |-> 0]
    /\ reclassified = [p \in Posts |-> FALSE]
    /\ delivered = [p \in Posts |-> ZeroCalls]
    /\ lookupFault = [p \in Posts |-> FALSE]
    /\ classified = [p \in Posts |-> 0]
    /\ closedEdit = [p \in Posts |-> 0]

AtWizard(f, pc) == call.fn = "wizard" /\ call.flow[f].pc = pc

\* time passes
WizardTick ==
    /\ call.fn = "wizard"
    /\ call.now < MaxClock
    /\ call' = [call EXCEPT !.now = @ + 1]
    /\ UNCHANGED nocall

\* db.AddAlert(ctx, tempRule) fails: "Failed to stage alert in database."; return
AddAlertFail(f) ==
    /\ AtWizard(f, "add")
    /\ call' = [call EXCEPT !.flow[f].pc = "failed"]
    /\ UNCHANGED nocall

\* Store.AddAlert: rule.CreatedAt = time.Now(); Collection("alerts").Add(ctx, rule)
AddAlert(f) ==
    /\ AtWizard(f, "add")
    /\ call' = [call EXCEPT !.alerts = @ \cup {[ID |-> f, CreatedAt |-> call.now]},
                            !.flow[f].added = f, !.flow[f].pc = "get"]
    /\ UNCHANGED nocall

\* Store.GetUserAlerts: the alerts of the user in the server, sorted by descending
\* CreatedAt with sort.Slice (not stable): the ids that may come first
Newest(alerts) ==
    {a.ID : a \in {x \in alerts : \A y \in alerts : y.CreatedAt <= x.CreatedAt}}

\* alerts, _ := db.GetUserAlerts(..); stagedAlertID := alerts[0].ID
StagedIds(f, alerts) == Newest(alerts)

\* GetUserAlerts fails or returns nothing: "Failed to retrieve staged alert."
\* ("System error while saving alert." in the manual wizard); return
GetUserAlertsFail(f) ==
    /\ AtWizard(f, "get")
    /\ call' = [call EXCEPT !.flow[f].pc = "failed"]
    /\ UNCHANGED nocall

\* the buttons confirm_alert|id and cancel_alert|id are built and
\* SendFollowupEmbedWithComponents shows the embed, with the too-broad warning, to
\* the user
ShowButtons(f) ==
    /\ AtWizard(f, "get")
    /\ \E id \in StagedIds(f, call.alerts) :
          call' = [call EXCEPT !.flow[f].staged = id, !.flow[f].pc = "shown",
                               !.flow[f].warned = call.flow[f].tooBroad]
    /\ UNCHANGED nocall

\* routeComponentInteraction, confirm_alert: analytics and the reply only
ConfirmAlert(f) ==
    /\ AtWizard(f, "shown")
    /\ call' = [call EXCEPT !.flow[f].pc = "confirmed"]
    /\ UNCHANGED nocall

\* routeComponentInteraction, cancel_alert: db.DeleteAlert(ctx, parts[1])
CancelAlert(f) ==
    /\ AtWizard(f, "shown")
    /\ call' = [call EXCEPT !.alerts = {a \in @ : a.ID # call.flow[f].staged},
                            !.flow[f].pc = "cancelled"]
    /\ UNCHANGED nocall

NextWizard ==
    \/ WizardTick
    \/ \E f \in Flows :
          \/ AddAlertFail(f) \/ AddAlert(f) \/ GetUserAlertsFail(f)
          \/ ShowButtons(f) \/ ConfirmAlert(f) \/ CancelAlert(f)

\* the wizard flows of one user in one server, run concurrently
SpecWizard == InitWizard /\ [][NextWizard]_vars

\* ------------------------------------------------------------- properties
\* the closures of the run in slot r that have started
Started(r) == {k \in 1..Len(run[r].batch) : task[r][k].pc # "new"}
\* the servers for which findMatches found a subscriber
Matched(t) == {s \in Scopes : t.matches[s] # <<>>}
\* no call of the new-item path was made: CleanRedditPost, Matches,
\* SendEmbedWithComponents, SendMessage
NoNewItemCalls(t) ==
    t.nClean = 0 /\ t.nMatch = 0 /\ t.nSend = ZeroCalls /\ t.nPing = ZeroCalls
\* the feed shows the post as removed or as sold or closed
Terminal(post) == post.RemovedByByCategory # "" \/ IsClosedFlair(post)
\* RunPipeline in slot r has returned after both fetches succeeded
ReturnedPastFetch(r) == run[r].pc = "ret" /\ run[r].id > 0 /\ run[r].fetchErr = ""

\* C1: an item whose record lookup succeeds and returns the persisted record gets,
\* in that run, no CleanRedditPost call, no rule matching, no
\* SendEmbedWithComponents or SendMessage call and no SavePostRecords call.
C1_Idempotent ==
    \A r \in Slots : \A k \in Started(r) :
        task[r][k].look = "record" => NoNewItemCalls(task[r][k]) /\ task[r][k].nSave = 0

\* a second run has returned whose batch held an item the first run delivered and
\* recorded, and the lookup returned that record
C1_Witness ==
    \E r \in Slots : \E k \in Started(r) :
        /\ run[r].id = 2 /\ run[r].pc = "ret"
        /\ task[r][k].look = "record"
        /\ Keys(task[r][k].rec.ServerMsgs) # {}
        /\ saveCount[PostOf(r, k).ID] = 1

\* a returned run whose N items were all unseen and open, exactly one of them failing
\* in CleanRedditPost, no other call failing, every classified item matching a rule
C2_Case(r) ==
    /\ ReturnedPastFetch(r)
    /\ Len(run[r].batch) >= 1
    /\ \A k \in 1..Len(run[r].batch) :
          /\ task[r][k].look = "none"
          /\ ~Terminal(PostOf(r, k))
          /\ task[r][k].errs \subseteq {"clean"}
          /\ task[r][k].errs = {} => Matched(task[r][k]) # {}
    /\ Cardinality({k \in 1..Len(run[r].batch) : task[r][k].errs = {"clean"}}) = 1

\* item k of the run in slot r was delivered to every matched server and
\* SavePostRecords was called once for it, and succeeded
DeliveredAndSaved(r, k) ==
    /\ Matched(task[r][k]) # {}
    /\ \A s \in Matched(task[r][k]) :
          /\ task[r][k].nSend[s] = 1
          /\ task[r][k].msgs[s] # NoMsg
          /\ delivered[PostOf(r, k).ID][s] >= 1
    /\ task[r][k].nSave = 1
    /\ saveCount[PostOf(r, k).ID] >= 1

\* C2: of N unseen open items that each match a rule, exactly one failing in
\* classification and no other call failing, N-1 are delivered and N-1 records are
\* saved, none for the failed item, and RunPipeline returns nil.
C2_PartialFailure ==
    \A r \in Slots :
        C2_Case(r) =>
            LET all == 1..Len(run[r].batch)
                ok == {k \in all : task[r][k].errs = {}}
            IN /\ Cardinality(ok) = Len(run[r].batch) - 1
               /\ \A k \in ok : DeliveredAndSaved(r, k)
               /\ \A k \in all \ ok :
                     /\ task[r][k].nSend = ZeroCalls
                     /\ task[r][k].msgs = NoMsgs
                     /\ task[r][k].nSave = 0
               /\ run[r].ret = "nil"

\* such a run of two items has returned
C2_Witness ==
    \E r \in Slots : C2_Case(r) /\ Len(run[r].batch) = 2

\* C3: when FetchNewestPosts fails, or it succeeds and GetAllAlerts fails, RunPipeline
\* returns an error and makes no record lookup, classification, delivery, edit,
\* record save or trim; when FetchNewestPosts fails GetAllAlerts is not called.
C3_FetchFatal ==
    \A r \in Slots :
        run[r].fetchErr # "" =>
            /\ run[r].pc = "ret" /\ run[r].ret = "err"
            /\ run[r].nTrim = 0
            /\ \A k \in Posts : task[r][k] = IdleTask
            /\ run[r].fetchErr = "posts" => run[r].nAlerts = 0

\* GetAllAlerts failed for a run that had fetched posts
C3_Witness ==
    \E r \in Slots :
        run[r].fetchErr = "alerts" /\ run[r].batch # <<>> /\ run[r].pc = "ret"

\* C4: once both fetches have succeeded RunPipeline returns nil, whatever calls of the
\* per-item work failed.
C4_ReturnsNil ==
    \A r \in Slots :
        /\ run[r].fetchErr = "" => run[r].ret # "err"
        /\ ReturnedPastFetch(r) => run[r].ret = "nil"

\* a run has returned in which a classification failed for one item and a config
\* lookup, a delivery or a save for another
C4_Witness ==
    \E r \in Slots : \E k1, k2 \in Started(r) :
        /\ ReturnedPastFetch(r)
        /\ "clean" \in task[r][k1].errs
        /\ task[r][k2].errs \cap {"config", "send", "save"} # {}

\* C5: an item with a persisted record and a Sold or Closed flair gets an EditEmbed
\* attempt for every entry of the record's delivery map whose config resolves, and
\* no CleanRedditPost and no SendEmbedWithComponents call.
C5_LifecycleUpdate ==
    \A r \in Slots : \A k \in Started(r) :
        (/\ task[r][k].pc = "done"
         /\ task[r][k].had
         /\ IsClosedFlair(PostOf(r, k))) =>
            /\ \A s \in Keys(records[PostOf(r, k).ID].ServerMsgs) :
                  task[r][k].nEdit[s] = 1 \/ "config" \in task[r][k].errs
            /\ task[r][k].nClean = 0
            /\ task[r][k].nSend = ZeroCalls

\* C6: an item with no persisted record that is removed or flaired Sold or Closed on
\* its first sighting gets no classification, no matching, no delivery, no edit and
\* no record save in that run.
C6_SkippedOnFirstSight ==
    \A r \in Slots : \A k \in Started(r) :
        (/\ task[r][k].look # ""
         /\ ~task[r][k].had
         /\ Terminal(PostOf(r, k))) =>
            /\ NoNewItemCalls(task[r][k])
            /\ task[r][k].nEdit = ZeroCalls
            /\ task[r][k].nSave = 0
            /\ task[r][k].pc = "done"

\* a removed item without a record has been through its closure
C6_Witness ==
    \E r \in Slots : \E k \in Started(r) :
        /\ task[r][k].pc = "done"
        /\ ~task[r][k].had
        /\ PostOf(r, k).RemovedByByCategory # ""
        /\ ~IsClosedFlair(PostOf(r, k))

\* C7: SavePostRecords is called for an item only if a feed delivery for it succeeded
\* in the same run; with no match, or every config lookup or delivery failing, no
\* record is saved.
C7_SaveAfterDelivery ==
    /\ \A r \in Slots : \A k \in Started(r) :
          /\ task[r][k].pc = "save" \/ task[r][k].nSave > 0 =>
                \E s \in Scopes : task[r][k].msgs[s] # NoMsg /\ task[r][k].nSend[s] = 1
          /\ task[r][k].pc = "done" /\ Keys(task[r][k].msgs) = {} => task[r][k].nSave = 0
    /\ \A p \in Posts : saveCount[p] > 0 => \E s \in Scopes : delivered[p][s] > 0

\* an item matched a rule, every delivery of it failed, and its closure returned
C7_Witness ==
    \E r \in Slots : \E k \in Started(r) :
        /\ task[r][k].pc = "done"
        /\ Matched(task[r][k]) # {}
        /\ "send" \in task[r][k].errs
        /\ Keys(task[r][k].msgs) = {}
        /\ task[r][k].nSave = 0

\* C8: over sequential runs and any lookup result, SavePostRecords succeeds at most
\* once per item id and an item whose record is persisted is never classified again.
C8_CreatedOnce ==
    \A p \in Posts : saveCount[p] <= 1 /\ ~reclassified[p]

\* C9: an unseen item in the batches of two overlapping runs is delivered to a server
\* at most once (here: no call of either run failing).
C9_DeliveredOnce ==
    \A r1, r2 \in Slots : \A k1 \in Started(r1), k2 \in Started(r2) :
        (/\ r1 # r2
         /\ ~Free(r1) /\ ~Free(r2)
         /\ PostOf(r1, k1).ID = PostOf(r2, k2).ID
         /\ ~task[r1][k1].had /\ ~task[r2][k2].had
         /\ task[r1][k1].errs = {} /\ task[r2][k2].errs = {}) =>
            \A s \in Scopes : task[r1][k1].msgs[s] = NoMsg \/ task[r2][k2].msgs[s] = NoMsg

\* C10: no worker writes globalMatcher.patterns while another worker reads or writes
\* it.
C10_NoMatcherRace == ~MatcherRace

\* C11: a GetServerConfig call that reads the clock less than TTL after the entry of
\* its server was stored returns the stored config and does not call the backing
\* store; one that reads the clock TTL or more after it calls the backing store.
C11_TTLWindow ==
    [][\A r \in Slots : \A k \in Posts :
          (task[r][k].pc = "cread" /\ task'[r][k].pc # "cread") =>
              LET e == run'[r].items[task[r][k].cur]
              IN e.present =>
                    IF e.age < TTL
                    THEN /\ task'[r][k].pc \in {"deliver", "edit"}
                         /\ task'[r][k].cfg = e.config
                    ELSE task'[r][k].pc = "cfetch"]_vars

\* two calls are at the read of the cache, one for a server whose entry is younger
\* than TTL, one for a server whose entry has reached TTL
C11_Witness ==
    \E r \in Slots : \E k1, k2 \in Started(r) :
        /\ task[r][k1].pc = "cread" /\ task[r][k2].pc = "cread"
        /\ run[r].items[task[r][k1].cur].present
        /\ run[r].items[task[r][k1].cur].age < TTL
        /\ run[r].items[task[r][k2].cur].present
        /\ run[r].items[task[r][k2].cur].age = TTL

\* C12: when the backing store fails inside GetServerConfig the call returns the
\* error with no config, no entry of the cache changes (an expired entry of that
\* server stays as it was), and the cache holds no entry without a config, so the
\* next call for that server that finds no fresh entry asks the store again.
C12_NoNegativeCaching ==
    [][\A r \in Slots : \A k \in Posts :
          (task[r][k].pc = "cfetch" /\ task'[r][k].pc \notin {"cfetch", "clock"}) =>
              /\ run'[r].items = run[r].items
              /\ "config" \in task'[r][k].errs
              /\ task'[r][k].cfg = NoConfig
              /\ task'[r][k].nSend[task[r][k].cur] = task[r][k].nSend[task[r][k].cur]
              /\ \A s \in Scopes :
                    run'[r].items[s].present => run'[r].items[s].config = ServerConfigOf(s)]_vars

\* the store has failed for a server whose expired entry is still in the cache
C12_Witness ==
    \E r \in Slots : \E k \in Started(r) : \E s \in Scopes :
        /\ task[r][k].pc = "done" /\ task[r][k].isNew
        /\ "config" \in task[r][k].errs
        /\ task[r][k].matches[s] # <<>>
        /\ task[r][k].nSend[s] = 0
        /\ run[r].items[s].present
        /\ ~Before(run[r].items[s])

\* C13: the map of the cache is read only under the read lock and written only under
\* the write lock, the goroutine that writes it is alone at the map (no other
\* goroutine reads or writes it then), and a goroutine holds neither lock while it
\* calls the backing store.
C13_CacheRaceFree ==
    \A r \in Slots : \A k \in Posts :
        /\ task[r][k].pc = "cread" => k \in run[r].mu.readers
        /\ task[r][k].pc = "cwrite" =>
              /\ run[r].mu.writer = k
              /\ run[r].mu.readers = {}
              /\ \A j \in Posts \ {k} : task[r][j].pc \notin {"cread", "cwrite"}
        /\ task[r][k].pc \in {"cfetch", "clock"} =>
              k \notin run[r].mu.readers /\ run[r].mu.writer # k

\* a goroutine writes the map while another one, back from the store, waits for
\* the write lock
C13_Witness ==
    \E r \in Slots : \E k1, k2 \in Started(r) :
        /\ task[r][k1].pc = "cwrite"
        /\ task[r][k2].pc = "clock"
        /\ run[r].mu.writer = k1

\* C14: whatever the size of the listing, at most WorkerLimit closures of a run
\* execute at any moment, and a closure starts only when fewer than WorkerLimit
\* closures of the run are in flight.
C14_WorkerBudget ==
    /\ [](\A r \in Slots : Active(r) <= WorkerLimit)
    /\ [][\A r \in Slots : \A k \in DOMAIN task[r] :
             (task[r][k].pc = "new" /\ task'[r][k].pc # "new") =>
                 Active(r) < WorkerLimit]_vars

\* WorkerLimit closures execute while a post of the listing waits for its g.Go
C14_Witness ==
    \E r \in Slots :
        /\ Active(r) = WorkerLimit
        /\ run[r].pc = "loop"
        /\ Len(run[r].batch) > WorkerLimit
        /\ task[r][Len(run[r].batch)].pc = "new"

\* the servers of a closure's matches for which the delivery has been tried or the
\* config could not be read
Attempted(t) ==
    {s \in Scopes : t.matches[s] # <<>> /\ (t.nSend[s] > 0 \/ "config" \in t.errs)}

\* C15 as stated: no SavePostRecords call starts while a closure of the run is
\* still executing, i.e. when a closure is at its SavePostRecords call the loop over
\* the listing has ended and every other closure of the run has returned.
C15_SaveAfterJoin ==
    \A r \in Slots : \A k \in Started(r) :
        task[r][k].pc = "save" =>
            /\ run[r].pc # "loop"
            /\ \A j \in Started(r) \ {k} : task[r][j].pc = "done"

\* C15 amended: SavePostRecords is called by the closure of the item itself, before
\* the join and possibly while other closures execute, after the delivery to every
\* matched server of the item has been attempted, at most once per closure, and
\* with the whole map of the deliveries that succeeded (never an empty one).
C15_SaveInsideTask ==
    \A r \in Slots : \A k \in Started(r) :
        LET t == task[r][k]
        IN /\ t.nSave <= 1
           /\ t.nSave = 1 => t.pc = "done"
           /\ (t.pc = "save" \/ t.nSave = 1) =>
                 /\ run[r].pc \in {"loop", "wait"} \/ t.pc = "done"
                 /\ t.isNew /\ t.todo = {}
                 /\ Attempted(t) = {s \in Scopes : t.matches[s] # <<>>}
                 /\ Keys(t.msgs) # {}
                 /\ \A s \in Scopes :
                       /\ t.msgs[s] # NoMsg =>
                             /\ t.nSend[s] = 1
                             /\ t.msgs[s] = MsgId(run[r].id, PostOf(r, k).ID, s)
                             /\ delivered[PostOf(r, k).ID][s] > 0
                       /\ (t.nSend[s] = 1 /\ "send" \notin t.errs) => t.msgs[s] # NoMsg

\* a closure is at its SavePostRecords call, both deliveries made, while another
\* closure of the run is still delivering
C15_Witness ==
    \E r \in Slots : \E k, j \in Started(r) :
        /\ task[r][k].pc = "save"
        /\ Keys(task[r][k].msgs) = Scopes
        /\ task[r][j].pc = "deliver"

\* C16: a run whose two fetches succeeded, whatever the size of its listing, calls
\* TrimOldPosts exactly once before it returns, and only when every closure of the
\* run has returned; a run calls it at most once.
C16_TrimOnceAfterJoin ==
    \A r \in Slots :
        /\ run[r].nTrim <= 1
        /\ ReturnedPastFetch(r) => run[r].nTrim = 1
        /\ run[r].nTrim > 0 =>
              /\ run[r].fetchErr = "" /\ run[r].nAlerts = 1
              /\ \A k \in 1..Len(run[r].batch) : task[r][k].pc = "done"

\* a run over two posts, both delivered, has made its call of TrimOldPosts
C16_Witness ==
    \E r \in Slots :
        /\ run[r].nTrim = 1
        /\ Len(run[r].batch) = 2
        /\ \A k \in 1..2 : \E s \in Scopes : task[r][k].nSend[s] > 0

\* C17: when TrimOldPosts fails, RunPipeline still returns nil, and the call changes
\* nothing of what the run did before: the records saved and the deliveries made
\* stay as they were.
C17_TrimNonFatal ==
    [][\A r \in Slots :
          (run[r].pc = "trim" /\ run'[r].pc # "trim" /\ run'[r].trimErr) =>
              /\ run'[r].pc = "ret" /\ run'[r].ret = "nil"
              /\ records' = records /\ posted' = posted
              /\ saveCount' = saveCount /\ delivered' = delivered
              /\ task' = task]_vars

\* a run whose TrimOldPosts failed has returned nil and the record it saved is kept
C17_Witness ==
    \E r \in Slots : \E k \in Started(r) :
        /\ run[r].pc = "ret" /\ run[r].trimErr /\ run[r].ret = "nil"
        /\ task[r][k].nSave = 1 /\ "save" \notin task[r][k].errs
        /\ saveCount[PostOf(r, k).ID] > 0

\* C18: once the context of a run is cancelled no delivery call is started: no
\* closure of the run makes a SendEmbedWithComponents, SendMessage or EditEmbed call
\* any more.
C18_CancelStopsDelivery ==
    [][\A r \in Slots : \A k \in Posts :
          (run[r].cancelled /\ run'[r].cancelled) =>
              /\ task'[r][k].nSend = task[r][k].nSend
              /\ task'[r][k].nPing = task[r][k].nPing
              /\ task'[r][k].nEdit = task[r][k].nEdit]_vars

Owners(alerts, cleaned, s) ==
    {alerts[i].UserID : i \in {j \in DOMAIN alerts :
        /\ alerts[j].ServerID = s
        /\ Matches(Corpus(cleaned), alerts[j].MustHave, alerts[j].AnyOf, alerts[j].MustNot)}}

Returned == call.fn = "Matches" /\ call.pc = "returned"
\* the term is present in the corpus of the call
Present(word) == containsWord(call.corpus, word)

\* C21: Matches returns true exactly when no mustNot term is present, every mustHave
\* term is present, and anyOf is empty or one of its terms is present: a present
\* mustNot term forces false, an empty anyOf never does, and a rule with three empty
\* clauses matches every corpus.
C21_MatchesClauses ==
    Returned =>
        /\ call.out <=>
              /\ \A i \in DOMAIN call.mustNot : ~Present(call.mustNot[i])
              /\ \A i \in DOMAIN call.mustHave : Present(call.mustHave[i])
              /\ call.anyOf = <<>> \/ \E i \in DOMAIN call.anyOf : Present(call.anyOf[i])
        /\ (\E i \in DOMAIN call.mustNot : Present(call.mustNot[i])) => ~call.out
        /\ (call.mustNot = <<>> /\ call.mustHave = <<>> /\ call.anyOf = <<>>) => call.out

\* a call has returned false for a rule whose mustHave and anyOf clauses are
\* satisfied and whose mustNot term is present
C21_Witness ==
    /\ Returned /\ ~call.out
    /\ call.mustHave # <<>> /\ \A i \in DOMAIN call.mustHave : Present(call.mustHave[i])
    /\ \E i \in DOMAIN call.anyOf : Present(call.anyOf[i])
    /\ \E i \in DOMAIN call.mustNot : Present(call.mustNot[i])

\* a call with the one mustHave term t and nothing else has returned
ReturnedFor(t) ==
    Returned /\ call.mustHave = <<t>> /\ call.anyOf = <<>> /\ call.mustNot = <<>>
\* w occurs in corpus c at index i, letter case ignored
OccursAt(w, c, i) ==
    /\ i + Len(w) - 1 <= Len(c)
    /\ \A j \in 1..Len(w) : LowerChar(c[i + j - 1]) = LowerChar(w[j])
\* the side before (after) the occurrence is the string boundary or a non-word character
FreeBefore(c, i) == i = 1 \/ ~IsWordChar(c[i - 1])
FreeAfter(w, c, i) == i + Len(w) = Len(c) + 1 \/ ~IsWordChar(c[i + Len(w)])

\* C22: for a term made of word characters only, Matches(corpus, [t], [], []) is
\* false when every occurrence of t in the corpus, letter case ignored, has a word
\* character directly before or after it, and true when some occurrence has the
\* string boundary or a non-word character on both sides.
C22_WordBoundaryPresence ==
    \A t \in SeqsUpTo(MatcherChars, MaxTermLen) :
        (ReturnedFor(t) /\ t # <<>> /\ \A j \in 1..Len(t) : IsWordChar(t[j])) =>
            (call.out <=>
                \E i \in 1..Len(call.corpus) :
                    /\ OccursAt(t, call.corpus, i)
                    /\ FreeBefore(call.corpus, i) /\ FreeAfter(t, call.corpus, i))

\* the call for the term a has returned false for a corpus that holds the word, in
\* the other case, only inside the longer token A5
C22_Witness ==
    /\ ReturnedFor(<<"a">>)
    /\ call.corpus = <<"$", "A", "5">>
    /\ ~call.out

\* C23: a term that begins (ends) with a non-word character is present exactly when
\* it occurs with the string boundary or a non-word character directly before
\* (after) it, its other side being free as well; it is not present when that side
\* touches a word character.
C23_PunctuationEdge ==
    \A t \in SeqsUpTo(MatcherChars, MaxTermLen) :
        LET w == NormWord(t)
        IN (ReturnedFor(t) /\ w # <<>> /\ (~IsWordChar(w[1]) \/ ~IsWordChar(w[Len(w)]))) =>
               /\ call.out <=>
                     \E i \in 1..Len(call.corpus) :
                         /\ OccursAt(w, call.corpus, i)
                         /\ FreeBefore(call.corpus, i) /\ FreeAfter(w, call.corpus, i)
               /\ (~IsWordChar(w[1]) /\ call.out) =>
                     \E i \in 1..Len(call.corpus) :
                         OccursAt(w, call.corpus, i) /\ FreeBefore(call.corpus, i)
               /\ (~IsWordChar(w[Len(w)]) /\ call.out) =>
                     \E i \in 1..Len(call.corpus) :
                         OccursAt(w, call.corpus, i) /\ FreeAfter(w, call.corpus, i)

\* the call for the term $5 has returned true for a corpus in which a space precedes it
C23_Witness ==
    /\ ReturnedFor(<<"$", "5">>)
    /\ call.corpus = <<" ", "$", "5">>
    /\ call.out

\* a term that is empty once its white space is trimmed
EmptyTerm(t) == \A j \in 1..Len(t) : IsSpace(t[j])
\* the terms of a clause that are not empty
NonEmpty(words) == SelectSeq(words, LAMBDA t : ~EmptyTerm(t))

\* C24: a term that is empty after trimming is never present: in mustHave it makes
\* the rule match nothing, in mustNot it never rejects (the result is that of the
\* rule without it), an anyOf made of such terms only makes the rule match nothing,
\* and no pattern is stored for it.
C24_EmptyTerm ==
    Returned =>
        /\ (\E i \in DOMAIN call.mustHave : EmptyTerm(call.mustHave[i])) => ~call.out
        /\ (call.anyOf # <<>> /\ \A i \in DOMAIN call.anyOf : EmptyTerm(call.anyOf[i]))
              => ~call.out
        /\ call.out = Matches(call.corpus, call.mustHave, call.anyOf, NonEmpty(call.mustNot))
        /\ <<>> \notin patterns
        /\ \A w \in patterns : ~EmptyTerm(w)

\* a call has returned true for a rule whose mustNot clause holds an empty term
\* next to a word that is absent, its mustHave word being present
C24_Witness ==
    /\ Returned /\ call.out
    /\ call.mustNot = << <<" ">>, <<"5">> >>
    /\ call.mustHave = << <<"a">> >>
    /\ patterns = {<<"a">>, <<"5">>}

\* C25: one CleanRedditPost call makes at most maxRetries GenerateContent attempts;
\* the first attempt that yields a parseable response ends the call with success and
\* is the last attempt (k failed attempts and then a success are k + 1 attempts,
\* k < maxRetries); a call that has returned with no attempt succeeding has returned
\* an error.
C25_BoundedRetry ==
    call.fn = "CleanRedditPost" =>
        /\ Len(call.outs) <= maxRetries
        /\ call.i <= maxRetries
        /\ \A j \in DOMAIN call.outs :
              call.outs[j] = "ok" =>
                 /\ j = Len(call.outs)
                 /\ call.pc = "returned" /\ call.ret = "nil"
        /\ call.ret = "nil" => call.outs # <<>> /\ call.outs[Len(call.outs)] = "ok"
        /\ (call.pc = "returned" /\ \A j \in DOMAIN call.outs : call.outs[j] # "ok")
              => call.ret \in {"failed", "ctx"}
        /\ call.pc = "backoff" => call.backoff = call.i + 1

\* CleanRedditPost has returned success at its third attempt, after two errors
C25_Witness ==
    /\ call.fn = "CleanRedditPost"
    /\ call.pc = "returned" /\ call.ret = "nil"
    /\ call.outs = <<"error", "error", "ok">>

\* C26: a request whose signature verification fails is answered with 401 and is
\* never parsed, rate-limited, routed to a handler or let to the store; whatever is
\* parsed, rate-limited or routed has a verified signature; a verified Ping is
\* answered with Pong and has not passed the rate limiter.
C26_SignatureFirst ==
    call.fn = "HandleInteraction" =>
        /\ ~call.sigOK =>
              /\ ~call.parsed /\ ~call.limited /\ call.routed = "" /\ ~call.store
              /\ call.pc \in {"key", "verify", "responded"}
              /\ (call.pc = "responded" /\ call.key = "ok") => call.status = 401
        /\ (call.pc = "responded" /\ call.parsed /\ call.parses /\ call.type = "Ping") =>
              /\ call.sigOK
              /\ call.status = 200 /\ call.body = "Pong"
              /\ ~call.limited /\ call.routed = ""

\* a request with a bad signature, whose body would parse as a slash command of a
\* user the limiter allows, has got its 401
C26_Witness ==
    /\ call.fn = "HandleInteraction"
    /\ call.pc = "responded" /\ call.status = 401
    /\ ~call.sigOK /\ call.readable /\ call.parses
    /\ call.type = "ApplicationCommand" /\ call.userID = "u1" /\ call.allows

\* C27: in a run whose caller never cancels its context, the context given to
\* TrimOldPosts is not cancelled when the call is made.
C27_TrimLiveContext ==
    \A r \in Slots :
        (run[r].pc = "trim" /\ ~run[r].cancelled) => ~run[r].ctxDone

\* the number of times u is listed in users
Mentions(users, u) == Cardinality({i \in DOMAIN users : users[i] = u})

\* C28: the matched users of a server form a set: a user who owns one or several
\* rules of the server that match the item is listed exactly once in the matched
\* list of that server and mentioned exactly once in its ping.
C28_MatchedUsersASet ==
    (call.fn = "findMatches" /\ call.pc = "returned") =>
        \A s \in Scopes : \A i \in DOMAIN call.alerts :
            LET a == call.alerts[i]
            IN (a.ServerID = s /\ Matches(call.corpus, a.MustHave, a.AnyOf, a.MustNot)) =>
                  /\ Mentions(call.out[s], a.UserID) = 1
                  /\ Mentions(call.pings[s], a.UserID) = 1

\* ------------------------------------------------------------------ C29
\* the servers of a closure whose config lookup succeeded: the loop body reached the
\* SendEmbedWithComponents call
Resolved(t) == {s \in Scopes : t.nSend[s] > 0}
\* the closure is at its SavePostRecords call or has made it
AtSave(t) == t.pc = "save" \/ t.nSave > 0

\* C29: the delivery map handed to SavePostRecords holds exactly the servers that had
\* a matching rule, whose config lookup succeeded and whose feed delivery succeeded
\* in this run, each with the message id that delivery returned; by then every
\* matched server has had its turn, whether or not another server's lookup or
\* delivery failed, and a failed lookup or delivery has added no entry; the step of
\* a successful delivery enters the id whatever the reactions and the ping return,
\* and no later step of the closure takes an entry out.
C29_DeliveryMapExact ==
    /\ [](\A r \in Slots : \A k \in Started(r) :
            AtSave(task[r][k]) =>
                /\ Keys(task[r][k].msgs) =
                       Matched(task[r][k]) \cap Resolved(task[r][k]) \cap task[r][k].sent
                /\ \A s \in Keys(task[r][k].msgs) :
                       task[r][k].msgs[s] = MsgId(run[r].id, PostOf(r, k).ID, s)
                /\ task[r][k].todo = {}
                /\ \A s \in Matched(task[r][k]) :
                       \/ task[r][k].nSend[s] = 1
                       \/ task[r][k].nSend[s] = 0 /\ "config" \in task[r][k].errs
                /\ \A s \in Matched(task[r][k]) \ task[r][k].sent :
                       /\ task[r][k].msgs[s] = NoMsg
                       /\ task[r][k].errs \cap {"config", "send"} # {})
    /\ [][\A r \in Slots : \A k \in Started(r) : \A s \in Scopes :
            /\ (k \in 1..Len(run'[r].batch) /\ run'[r].id = run[r].id
                /\ s \in task'[r][k].sent \ task[r][k].sent)
                   => task'[r][k].msgs[s] = MsgId(run[r].id, PostOf(r, k).ID, s)
            /\ (k \in 1..Len(run'[r].batch) /\ run'[r].id = run[r].id
                /\ task[r][k].msgs[s] # NoMsg)
                   => task'[r][k].msgs[s] = task[r][k].msgs[s]]_vars

\* a closure is at its SavePostRecords call with the entry of one server, after the
\* delivery to its other matched server failed
C29_Witness ==
    \E r \in Slots : \E k \in Started(r) :
        /\ task[r][k].pc = "save"
        /\ Matched(task[r][k]) = Scopes
        /\ \E s \in Scopes :
              /\ task[r][k].msgs[s] = MsgId(run[r].id, PostOf(r, k).ID, s)
              /\ \A o \in Scopes \ {s} :
                    /\ task[r][k].nSend[o] = 1
                    /\ o \notin task[r][k].sent
                    /\ task[r][k].msgs[o] = NoMsg

\* ------------------------------------------------------------------ C30
\* the closure found the record of a post that the feed now shows as removed while
\* its flair is neither Sold nor Closed
RemovedOnly(r, k) ==
    /\ task[r][k].look = "record"
    /\ PostOf(r, k).RemovedByByCategory # ""
    /\ ~IsClosedFlair(PostOf(r, k))

\* C30 as stated: removal is a terminal state of the lifecycle path, i.e. once the
\* closure of a recorded post that is now removed (flair not Sold/Closed) has returned,
\* an EditEmbed call has been attempted for every server of the record's delivery map
\* whose config lookup did not fail.
C30_RemovalEdits ==
    \A r \in Slots : \A k \in Started(r) :
        (RemovedOnly(r, k) /\ task[r][k].pc = "done") =>
            \A s \in Keys(task[r][k].rec.ServerMsgs) :
                task[r][k].nEdit[s] >= 1 \/ "config" \in task[r][k].errs

\* C30 (amended): on the lifecycle path only a Sold or Closed flair leads to the
\* closed presentation: the closure of a recorded post that is removed while its
\* flair is neither Sold nor Closed returns right after the lookup, having looked up
\* no config and made no EditEmbed call nor any other discord or save call; with a
\* Sold or Closed flair (removed or not) every server of the record's delivery map
\* gets its EditEmbed attempt unless its config lookup failed.
C30_RemovalOnlyLogged ==
    \A r \in Slots : \A k \in Started(r) :
        /\ RemovedOnly(r, k) =>
              /\ task[r][k].pc = "done"
              /\ task[r][k].nEdit = ZeroCalls
              /\ NoNewItemCalls(task[r][k])
              /\ task[r][k].nSave = 0
              /\ task[r][k].errs = {}
        /\ (task[r][k].look = "record" /\ IsClosedFlair(PostOf(r, k))
            /\ task[r][k].pc = "done") =>
              \A s \in Keys(task[r][k].rec.ServerMsgs) :
                  task[r][k].nEdit[s] = 1
                  \/ (task[r][k].nEdit[s] = 0 /\ "config" \in task[r][k].errs)

\* the closure of a delivered post that is now removed with an open flair has
\* returned without an EditEmbed call, its record listing both servers
C30_Witness ==
    \E r \in Slots : \E k \in Started(r) :
        /\ RemovedOnly(r, k)
        /\ task[r][k].pc = "done"
        /\ Keys(task[r][k].rec.ServerMsgs) = Scopes
        /\ task[r][k].nEdit = ZeroCalls

\* ------------------------------------------------------------------ C31
\* C31: for an item whose record was persisted when the run looked it up, whatever
\* its status and whether or not edits succeed, the run makes no SavePostRecords
\* call, so the record is the same after the run as before.
C31_LifecycleFrame ==
    \A r \in Slots : \A k \in Started(r) :
        task[r][k].had => task[r][k].nSave = 0

\* ------------------------------------------------------------------ C32
\* the closure has found no fresh entry for its server and the backing store has
\* answered its GetServerConfig call; the entry is not yet stored
Fetched(t) == t.pc \in {"clock", "cwrite"}

\* C32: when several closures of a run call ConfigCache.GetServerConfig concurrently
\* for the same server and find no fresh entry, the backing store is consulted once
\* for that server: no two closures of a run have each obtained the server's config
\* from the backing store before either has stored it.
C32_SingleFetch ==
    \A r \in Slots : \A k1, k2 \in Started(r) :
        (/\ k1 # k2
         /\ Fetched(task[r][k1])
         /\ Fetched(task[r][k2])) => task[r][k1].cur # task[r][k2].cur

\* ------------------------------------------------------------------ C33
\* the closure is past its CleanRedditPost call and past findMatches
PastMatching(t) == t.pc \notin {"lookup", "clean", "mread", "mwrite"}

\* C33: in every run, an item that has no persisted record and is neither removed
\* nor flaired Sold or Closed is classified exactly once, and when the classification
\* succeeds it is evaluated against every rule of the list the run fetched, its
\* matches being those of that list on the classified text; this does not depend on
\* how often earlier runs classified the item.
C33_UnseenIsNewEveryRun ==
    \A r \in Slots : \A k \in Started(r) :
        (/\ ~task[r][k].had
         /\ ~Terminal(PostOf(r, k))
         /\ task[r][k].pc \notin {"lookup", "clean"}) =>
            /\ task[r][k].isNew
            /\ task[r][k].nClean = 1
            /\ classified[PostOf(r, k).ID] >= 1
            /\ "clean" \notin task[r][k].errs =>
                  /\ task[r][k].nMatch = Len(run[r].alerts)
                  /\ PastMatching(task[r][k]) =>
                        task[r][k].matches =
                            findMatches(run[r].alerts, Corpus(task[r][k].cleaned))

\* the second run has classified and matched an item that the first run had
\* classified without a record being saved
C33_Witness ==
    \E r \in Slots : \E k \in Started(r) :
        /\ run[r].id = 2
        /\ ~task[r][k].had
        /\ saveCount[PostOf(r, k).ID] = 0
        /\ classified[PostOf(r, k).ID] = 2
        /\ task[r][k].nClean = 1
        /\ PastMatching(task[r][k])
        /\ Matched(task[r][k]) # {}

\* ------------------------------------------------------------------ C34
\* C34: every RunPipeline execution that has started eventually returns: as long as
\* it has not returned, its main goroutine or one of its closures can take a step, so
\* that no goroutine of the run waits forever for a worker slot, a lock or the join.
C34_Termination ==
    \A r \in Slots :
        run[r].pc \notin {"idle", "ret"} =>
            ENABLED (RunStep(r) \/ \E k \in Posts : TaskStep(r, k))

\* ------------------------------------------------------------------ C35
\* the j-th attempt of the call yielded the first response that failed to parse
FirstParseFailure(j) ==
    /\ j \in 1..Len(call.outs)
    /\ call.outs[j] = "unparseable"
    /\ \A i \in 1..(j - 1) : call.outs[i] # "unparseable"

\* C35: when callWithRetry has returned and its context was not cancelled, an attempt
\* that yielded the first unparseable response of the call, fewer than maxRetries
\* attempts having been made, was followed by one more GenerateContent attempt,
\* whether or not earlier attempts failed with an error.
C35_ParseRetriedOnce ==
    (InRetry /\ call.pc = "returned" /\ ~call.ctxDone) =>
        \A j \in 1..(maxRetries - 1) :
            FirstParseFailure(j) => Len(call.outs) >= j + 1

\* ------------------------------------------------------------------ C36
\* an earlier call for u that returned true stored a time less than RateWindow
\* before now
AllowedRecently(u) ==
    /\ call.allowed[u] # <<>>
    /\ call.now - call.allowed[u][Len(call.allowed[u])] < RateWindow
\* the goroutines inside Allow, between Lock and Unlock
InAllow == {c \in Callers : call.g[c].pc \in {"check", "store", "unlock"}}

\* C36: Allow(u) returns false exactly when an earlier call for u that returned true
\* stored its time less than 2 seconds before the test, and true otherwise; only a
\* call that returns true changes the recorded time, and only that of its own user;
\* at most one goroutine is inside Allow at a time, so that the times of any two
\* calls of a user that returned true lie at least 2 seconds apart.
C36_RateLimit ==
    /\ [](call.fn = "Allow" =>
            /\ Cardinality(InAllow) <= 1
            /\ \A u \in LimiterUsers :
                  /\ \A i \in 1..(Len(call.allowed[u]) - 1) :
                        call.allowed[u][i + 1] - call.allowed[u][i] >= RateWindow
                  /\ call.lastSeen[u] =
                        IF call.allowed[u] = <<>> THEN NeverSeen
                        ELSE call.allowed[u][Len(call.allowed[u])])
    /\ [][call.fn = "Allow" =>
            /\ \A c \in Callers :
                  /\ (call.g[c].pc = "check" /\ call'.g[c].pc # "check") =>
                        IF AllowedRecently(call.g[c].user)
                        THEN call'.g[c].ret = "false" /\ call'.g[c].pc = "unlock"
                        ELSE call'.g[c].ret = "none" /\ call'.g[c].pc = "store"
                  /\ (call.g[c].pc = "store" /\ call'.g[c].pc # "store") =>
                        call'.g[c].ret = "true"
                  /\ (call.g[c].ret = "none" /\ call'.g[c].ret = "false") =>
                        call'.lastSeen = call.lastSeen
            /\ \A u \in LimiterUsers :
                  call'.lastSeen[u] # call.lastSeen[u] =>
                      \E c \in Callers :
                          /\ call.g[c].user = u
                          /\ call.g[c].ret = "none" /\ call'.g[c].ret = "true"]_vars

\* three calls for one user have returned: one allowed, one denied inside the
\* window, one allowed after it
C36_Witness ==
    /\ call.fn = "Allow"
    /\ \E c1, c2, c3 \in Callers :
          /\ call.g[c1].user = "u1" /\ call.g[c1].ret = "true"
          /\ call.g[c2].user = "u1" /\ call.g[c2].ret = "false"
          /\ call.g[c3].user = "u1" /\ call.g[c3].ret = "true" /\ c3 # c1
    /\ Len(call.allowed["u1"]) = 2

\* ------------------------------------------------------------------ C37
\* C37: the id in the confirm and cancel buttons of a wizard flow is the id of the
\* alert that this flow added, also when another flow of the same user in the same
\* server runs at the same time, so that every alert a flow added is still stored
\* unless that flow itself was cancelled.
C37_ButtonsOwnAlert ==
    call.fn = "wizard" =>
        \A f \in Flows :
            /\ call.flow[f].staged # NoDoc => call.flow[f].staged = call.flow[f].added
            /\ (call.flow[f].added # NoDoc /\ call.flow[f].pc # "cancelled") =>
                  \E a \in call.alerts : a.ID = call.flow[f].added

\* ------------------------------------------------------------------ C38
\* the alerts GetAllAlerts returns
ActiveAlerts == {a.ID : a \in call.alerts}

\* C38: the alert of a wizard request that the AI flagged as too broad is among the
\* alerts GetAllAlerts returns only once the warning was shown and the user has
\* confirmed.
C38_WarnBeforeSave ==
    call.fn = "wizard" =>
        \A f \in Flows :
            (call.flow[f].tooBroad /\ call.flow[f].added \in ActiveAlerts) =>
                call.flow[f].warned /\ call.flow[f].pc = "confirmed"

====
